---- MODULE Spec2Model ----
(***************************************************************************)
(* Model of the hand-bubble-shooter core: BubbleGame (spawn, motion,       *)
(* reflection, collision scoring, reset), GestureDetector (closed-hand     *)
(* vote, index-fingertip anchor) and the BubbleGameViewer run loop         *)
(* (pointer smoothing, shooting, per-tick order).                          *)
(*                                                                         *)
(* Number representation.  The code works on floats; the model works on    *)
(* exact integers:                                                         *)
(*   - a normalized coordinate c in [0,1] is the integer c * NormScale     *)
(*     (NormScale = 48000, so one pixel is PxX = 60 units on the x axis    *)
(*     and PxY = 80 units on the y axis);                                  *)
(*   - a velocity v (normalized units per second) is the integer v * 100;  *)
(*   - a time or duration t (seconds) is the integer t * TimeScale         *)
(*     (TimeScale = 20, one unit is 0.05 s).                               *)
(* With these scales every product, clamp and comparison of BubbleGame is  *)
(* exact.  Only the pointer smoothing rounds (to the nearest unit).        *)
(***************************************************************************)
EXTENDS Integers, Sequences, FiniteSets, TLC

(***************************************************************************)
(* Bounds of the model.                                                    *)
(***************************************************************************)
\* max_bubbles is the constructor parameter of BubbleGame (default 5,
\* bubble_game.py:17); the model instantiates the game with a small value.
max_bubbles == 2
\* Number of calls made on one BubbleGame by its caller.
MaxCalls == 3
\* Number of loop iterations of one BubbleGameViewer.run.
MaxTicks == 2
\* Number of loop iterations of one MenuSystem.run.
MaxMenuTicks == 2
\* Number of loop iterations of one longer game (SpecPlay).
MaxPlayTicks == 6

(***************************************************************************)
(* Program constants.                                                      *)
(***************************************************************************)
screen_width == 800
screen_height == 600
min_radius == 30
max_radius == 50
\* spawn_rate = 0.8 bubbles per second, in tenths
spawn_rate_tenths == 8
\* bubble_colors has six entries, indexed 0..5
NumColors == 6
\* smoothing_factor = 0.15, in hundredths
smoothing_factor_pct == 15
\* thumb threshold 0.15 of is_hand_closed, in hundredths
thumb_threshold_pct == 15
\* a hand skeleton has 21 landmarks (HandLandmark.PINKY_TIP = 20)
NumLandmarks == 21

(***************************************************************************)
(* Scales of the integer representation.                                   *)
(***************************************************************************)
TimeScale == 2 * 10
NormScale == 60 * screen_width
PxX == NormScale \div screen_width
PxY == NormScale \div screen_height
\* units moved per (velocity hundredth x time unit)
VelStep == NormScale \div (100 * TimeScale)

Abs(n) == IF n < 0 THEN -n ELSE n
Min(a, b) == IF a <= b THEN a ELSE b
Max(a, b) == IF a >= b THEN a ELSE b

RECURSIVE GCD(_, _)
GCD(a, b) == IF b = 0 THEN a ELSE GCD(b, a % b)

\* np.sqrt(dx**2 + dy**2) <= r, without leaving the 32-bit range: a
\* component larger than r already decides the comparison.
DistLeq(dx, dy, r) ==
    /\ Abs(dx) <= r
    /\ Abs(dy) <= r
    /\ dx * dx + dy * dy <= r * r

\* np.sqrt(dx**2 + dy**2) < r
DistLt(dx, dy, r) ==
    /\ Abs(dx) < r
    /\ Abs(dy) < r
    /\ dx * dx + dy * dy < r * r

(***************************************************************************)
(* Sequence helpers for Python list operations.                            *)
(***************************************************************************)
\* `e in lst` (dataclass equality compares every field)
InList(e, lst) == \E i \in 1..Len(lst) : lst[i] = e

\* lst.remove(e): removes the first element equal to e
RECURSIVE ListRemove(_, _)
ListRemove(lst, e) ==
    IF lst = <<>> THEN <<>>
    ELSE IF Head(lst) = e THEN Tail(lst)
    ELSE <<Head(lst)>> \o ListRemove(Tail(lst), e)

\* for e in gone: if e in lst: lst.remove(e)
RECURSIVE RemoveEach(_, _)
RemoveEach(lst, gone) ==
    IF gone = <<>> THEN lst
    ELSE RemoveEach(IF InList(Head(gone), lst) THEN ListRemove(lst, Head(gone)) ELSE lst,
                    Tail(gone))

(***************************************************************************)
(* BubbleGame.  A game value g is the record of the object's fields.       *)
(***************************************************************************)
\* BubbleGame.__init__ at clock value t
NewGame(t) ==
    [bubbles |-> <<>>, next_bubble_id |-> 0, last_spawn_time |-> t,
     score |-> 0, bubbles_popped |-> 0]

\* The random draws of one _spawn_bubble call: radius = randint(min, max),
\* side = randint(0, 3), along = uniform(0.15, 0.85), lateral =
\* uniform(-0.15, 0.15), inbound = uniform(0.08, 0.25), color = choice index.
DrawDomain ==
    [radius : min_radius..max_radius, side : 0..3,
     along : ((15 * NormScale) \div 100)..((85 * NormScale) \div 100),
     lateral : (-15)..15, inbound : 8..25, color : 0..(NumColors - 1)]

\* The draws the model enumerates.
SpawnDraws ==
    { [radius |-> 50, side |-> 0, along |-> NormScale \div 2, lateral |-> 0,
       inbound |-> 25, color |-> 0],
      [radius |-> 33, side |-> 1, along |-> (85 * NormScale) \div 100, lateral |-> 15,
       inbound |-> 25, color |-> 5],
      [radius |-> 47, side |-> 2, along |-> NormScale \div 2, lateral |-> -15,
       inbound |-> 8, color |-> 3],
      [radius |-> 30, side |-> 3, along |-> (15 * NormScale) \div 100, lateral |-> -15,
       inbound |-> 8, color |-> 1] }

\* Variant of _spawn_bubble: points left at the dataclass default of 10
_spawn_bubble_DefaultPoints(g, d) ==
    LET horizontal == d.side = 0 \/ d.side = 2
        bubble == [x |-> IF horizontal THEN d.along ELSE IF d.side = 1 THEN NormScale ELSE 0,
                   y |-> IF ~horizontal THEN d.along ELSE IF d.side = 2 THEN NormScale ELSE 0,
                   radius |-> d.radius,
                   velocity_x |-> IF horizontal THEN d.lateral
                                  ELSE IF d.side = 1 THEN -d.inbound ELSE d.inbound,
                   velocity_y |-> IF ~horizontal THEN d.lateral
                                  ELSE IF d.side = 2 THEN -d.inbound ELSE d.inbound,
                   color |-> d.color, id |-> g.next_bubble_id, points |-> 10]
    IN [g EXCEPT !.next_bubble_id = g.next_bubble_id + 1,
                 !.bubbles = Append(g.bubbles, bubble)]

\* Variant of _spawn_bubble: the right edge (side 1) draws velocity_x from
\* the range of the left edge
_spawn_bubble_RightOutward(g, d) ==
    LET horizontal == d.side = 0 \/ d.side = 2
        bubble == [x |-> IF horizontal THEN d.along ELSE IF d.side = 1 THEN NormScale ELSE 0,
                   y |-> IF ~horizontal THEN d.along ELSE IF d.side = 2 THEN NormScale ELSE 0,
                   radius |-> d.radius,
                   velocity_x |-> IF horizontal THEN d.lateral ELSE d.inbound,
                   velocity_y |-> IF ~horizontal THEN d.lateral
                                  ELSE IF d.side = 2 THEN -d.inbound ELSE d.inbound,
                   color |-> d.color, id |-> g.next_bubble_id,
                   points |-> d.radius \div 5]
    IN [g EXCEPT !.next_bubble_id = g.next_bubble_id + 1,
                 !.bubbles = Append(g.bubbles, bubble)]

\* BubbleGame._spawn_bubble with the draws d
_spawn_bubble(g, d) ==
    LET x == CASE d.side = 0 -> d.along
               [] d.side = 1 -> NormScale
               [] d.side = 2 -> d.along
               [] OTHER -> 0
        y == CASE d.side = 0 -> 0
               [] d.side = 1 -> d.along
               [] d.side = 2 -> NormScale
               [] OTHER -> d.along
        velocity_x == CASE d.side = 0 -> d.lateral
                        [] d.side = 1 -> -d.inbound
                        [] d.side = 2 -> d.lateral
                        [] OTHER -> d.inbound
        velocity_y == CASE d.side = 0 -> d.inbound
                        [] d.side = 1 -> d.lateral
                        [] d.side = 2 -> -d.inbound
                        [] OTHER -> d.lateral
        bubble == [x |-> x, y |-> y, radius |-> d.radius,
                   velocity_x |-> velocity_x, velocity_y |-> velocity_y,
                   color |-> d.color, id |-> g.next_bubble_id,
                   points |-> d.radius \div 5]
    IN [g EXCEPT !.next_bubble_id = g.next_bubble_id + 1,
                 !.bubbles = Append(g.bubbles, bubble)]

\* Variant of ClampDelta: delta_time is used as given
ClampDelta_None(delta_time) == delta_time

\* Variant of ClampDelta: max taken instead of min
ClampDelta_Max(delta_time) == Max(delta_time, TimeScale \div 10)

\* min(delta_time, 0.1)
ClampDelta(delta_time) == Min(delta_time, TimeScale \div 10)

\* Variant of MoveBubble: the velocity is reversed but the position is not
\* clamped
MoveBubble_NoClamp(b, delta_time) ==
    LET clamped_delta == ClampDelta(delta_time)
        x1 == b.x + VelStep * b.velocity_x * clamped_delta
        y1 == b.y + VelStep * b.velocity_y * clamped_delta
        crossX == x1 - PxX * b.radius <= 0 \/ x1 + PxX * b.radius >= NormScale
        crossY == y1 - PxY * b.radius <= 0 \/ y1 + PxY * b.radius >= NormScale
    IN [b EXCEPT
          !.velocity_x = IF crossX THEN -b.velocity_x ELSE b.velocity_x,
          !.x = x1,
          !.velocity_y = IF crossY THEN -b.velocity_y ELSE b.velocity_y,
          !.y = y1]

\* One iteration of the position loop of update for one bubble: integrate,
\* bounce off the walls, clamp.
MoveBubble(b, delta_time) ==
    LET clamped_delta == ClampDelta(delta_time)
        x1 == b.x + VelStep * b.velocity_x * clamped_delta
        y1 == b.y + VelStep * b.velocity_y * clamped_delta
        \* pixel_x - radius <= 0 or pixel_x + radius >= screen_width
        crossX == x1 - PxX * b.radius <= 0 \/ x1 + PxX * b.radius >= NormScale
        crossY == y1 - PxY * b.radius <= 0 \/ y1 + PxY * b.radius >= NormScale
    IN [b EXCEPT
          !.velocity_x = IF crossX THEN -b.velocity_x ELSE b.velocity_x,
          !.x = IF crossX THEN Max(PxX * b.radius, Min(x1, NormScale - PxX * b.radius))
                ELSE x1,
          !.velocity_y = IF crossY THEN -b.velocity_y ELSE b.velocity_y,
          !.y = IF crossY THEN Max(PxY * b.radius, Min(y1, NormScale - PxY * b.radius))
                ELSE y1]

\* Variant of OffScreen: the margin of 0.1 is taken inside the screen
OffScreen_MarginInside(b) ==
    \/ b.x < NormScale \div 10
    \/ b.x > NormScale - NormScale \div 10
    \/ b.y < NormScale \div 10
    \/ b.y > NormScale - NormScale \div 10

\* bubble.x < -0.1 or bubble.x > 1.1 or bubble.y < -0.1 or bubble.y > 1.1
OffScreen(b) ==
    \/ b.x < -(NormScale \div 10)
    \/ b.x > NormScale + NormScale \div 10
    \/ b.y < -(NormScale \div 10)
    \/ b.y > NormScale + NormScale \div 10

\* current_time - last_spawn_time >= 1.0 / spawn_rate
SpawnDue(g, current_time) ==
    (current_time - g.last_spawn_time) * spawn_rate_tenths >= 10 * TimeScale

\* Variant of SpawnStep: the active count is not compared with max_bubbles
SpawnStep_NoCap(g, current_time, d) ==
    IF SpawnDue(g, current_time)
    THEN [_spawn_bubble(g, d) EXCEPT !.last_spawn_time = current_time]
    ELSE g

\* Variant of SpawnStep: the active count is compared with max_bubbles - 1
SpawnStep_OneShort(g, current_time, d) ==
    IF Len(g.bubbles) < max_bubbles - 1 /\ SpawnDue(g, current_time)
    THEN [_spawn_bubble(g, d) EXCEPT !.last_spawn_time = current_time]
    ELSE g

\* The spawn block of update: time.time() = current_time, spawn draws d
SpawnStep(g, current_time, d) ==
    IF Len(g.bubbles) < max_bubbles /\ SpawnDue(g, current_time)
    THEN [_spawn_bubble(g, d) EXCEPT !.last_spawn_time = current_time]
    ELSE g

\* Variant of MoveStep: a removed bubble is scored as if it had been popped,
\* and a bubble is removed as soon as it lies at a wall
MoveStep_ScoresRemoved(g, delta_time) ==
    LET moved == [i \in 1..Len(g.bubbles) |-> MoveBubble(g.bubbles[i], delta_time)]
        AtWall(b) == \/ OffScreen(b)
                     \/ b.x = PxX * b.radius \/ b.x = NormScale - PxX * b.radius
                     \/ b.y = PxY * b.radius \/ b.y = NormScale - PxY * b.radius
        bubbles_to_remove == SelectSeq(moved, AtWall)
    IN [g EXCEPT !.bubbles = RemoveEach(moved, bubbles_to_remove),
                 !.bubbles_popped = @ + Len(bubbles_to_remove),
                 !.score = @ + Len(bubbles_to_remove)]

\* The position loop and the removal loop of update
MoveStep(g, delta_time) ==
    LET moved == [i \in 1..Len(g.bubbles) |-> MoveBubble(g.bubbles[i], delta_time)]
        bubbles_to_remove == SelectSeq(moved, OffScreen)
    IN [g EXCEPT !.bubbles = RemoveEach(moved, bubbles_to_remove)]

\* BubbleGame.update(delta_time)
update(g, delta_time, current_time, d) ==
    MoveStep(SpawnStep(g, current_time, d), delta_time)

\* Variant of InHitRange: distance < bubble.radius * 1.1
InHitRange_Strict(b, pointer_x, pointer_y) ==
    LET k == GCD(screen_width, screen_height)
    IN DistLt((pointer_x - b.x) * (screen_width \div k),
              (pointer_y - b.y) * (screen_height \div k),
              (b.radius * 11 * (NormScale \div k)) \div 10)

\* distance <= bubble.radius * 1.1, distance taken in pixel space.  Both
\* sides are multiplied by NormScale / gcd(width, height).
InHitRange(b, pointer_x, pointer_y) ==
    LET k == GCD(screen_width, screen_height)
    IN DistLeq((pointer_x - b.x) * (screen_width \div k),
               (pointer_y - b.y) * (screen_height \div k),
               (b.radius * 11 * (NormScale \div k)) \div 10)

\* Variant of CollisionLoop: the loop stops at the first hit
RECURSIVE CollisionLoop_FirstHit(_, _, _, _, _)
CollisionLoop_FirstHit(bubbles, i, pointer_x, pointer_y, acc) ==
    IF i > Len(bubbles) THEN acc
    ELSE LET bubble == bubbles[i]
             hit == InHitRange(bubble, pointer_x, pointer_y)
         IN IF hit
            THEN [hit_bubbles |-> Append(acc.hit_bubbles, bubble),
                  score |-> acc.score + bubble.points,
                  bubbles_popped |-> acc.bubbles_popped + 1]
            ELSE CollisionLoop_FirstHit(bubbles, i + 1, pointer_x, pointer_y, acc)

\* Variant of CollisionLoop: a hit subtracts the point value
RECURSIVE CollisionLoop_Penalty(_, _, _, _, _)
CollisionLoop_Penalty(bubbles, i, pointer_x, pointer_y, acc) ==
    IF i > Len(bubbles) THEN acc
    ELSE LET bubble == bubbles[i]
             hit == InHitRange(bubble, pointer_x, pointer_y)
             acc1 == IF hit
                     THEN [hit_bubbles |-> Append(acc.hit_bubbles, bubble),
                           score |-> acc.score - bubble.points,
                           bubbles_popped |-> acc.bubbles_popped + 1]
                     ELSE acc
         IN CollisionLoop_Penalty(bubbles, i + 1, pointer_x, pointer_y, acc1)

\* The collision loop of check_collisions over bubbles[i..]: acc carries
\* hit_bubbles, score and bubbles_popped.
RECURSIVE CollisionLoop(_, _, _, _, _)
CollisionLoop(bubbles, i, pointer_x, pointer_y, acc) ==
    IF i > Len(bubbles) THEN acc
    ELSE LET bubble == bubbles[i]
             acc1 == IF InList(bubble, acc.hit_bubbles) THEN acc
                     ELSE IF InHitRange(bubble, pointer_x, pointer_y)
                     THEN [hit_bubbles |-> Append(acc.hit_bubbles, bubble),
                           score |-> acc.score + bubble.points,
                           bubbles_popped |-> acc.bubbles_popped + 1]
                     ELSE acc
         IN CollisionLoop(bubbles, i + 1, pointer_x, pointer_y, acc1)

\* Variant of check_collisions: the hit bubbles are not removed
check_collisions_KeepsHit(g, pointer_x, pointer_y, is_shooting) ==
    IF ~is_shooting THEN [game |-> g, ret |-> <<>>]
    ELSE LET acc == CollisionLoop(g.bubbles, 1, pointer_x, pointer_y,
                       [hit_bubbles |-> <<>>, score |-> g.score,
                        bubbles_popped |-> g.bubbles_popped])
         IN [game |-> [g EXCEPT !.score = acc.score,
                                !.bubbles_popped = acc.bubbles_popped],
             ret |-> acc.hit_bubbles]

\* BubbleGame.check_collisions: the game after the call and the returned list
check_collisions(g, pointer_x, pointer_y, is_shooting) ==
    IF ~is_shooting THEN [game |-> g, ret |-> <<>>]
    ELSE LET acc == CollisionLoop(g.bubbles, 1, pointer_x, pointer_y,
                       [hit_bubbles |-> <<>>, score |-> g.score,
                        bubbles_popped |-> g.bubbles_popped])
         IN [game |-> [g EXCEPT !.score = acc.score,
                                !.bubbles_popped = acc.bubbles_popped,
                                !.bubbles = RemoveEach(g.bubbles, acc.hit_bubbles)],
             ret |-> acc.hit_bubbles]

\* Variant of reset: bubbles_popped is not zeroed
reset_KeepsPopped(g, current_time) ==
    [g EXCEPT !.bubbles = <<>>, !.score = 0, !.last_spawn_time = current_time]

\* Variant of reset: the id counter restarts at 0
reset_RestartIds(g, current_time) ==
    [g EXCEPT !.bubbles = <<>>, !.score = 0, !.bubbles_popped = 0,
              !.last_spawn_time = current_time, !.next_bubble_id = 0]

\* BubbleGame.reset with time.time() = current_time
reset(g, current_time) ==
    [g EXCEPT !.bubbles = <<>>, !.score = 0, !.bubbles_popped = 0,
              !.last_spawn_time = current_time]

(***************************************************************************)
(* GestureDetector.  A hand is a record with the list of its landmarks, a  *)
(* landmark is a record [x, y] of normalized coordinates.  Python indexes  *)
(* from 0: landmark i of the code is landmarks[i + 1].  A result is the    *)
(* record [raised, value]: raised is TRUE when the call ends in an         *)
(* IndexError.                                                             *)
(***************************************************************************)
WRIST == 0
THUMB_IP == 3
THUMB_TIP == 4
INDEX_FINGER_PIP == 6
INDEX_FINGER_TIP == 8
MIDDLE_FINGER_PIP == 10
MIDDLE_FINGER_TIP == 12
RING_FINGER_PIP == 14
RING_FINGER_TIP == 16
PINKY_PIP == 18
PINKY_TIP == 20

fingertips == <<THUMB_TIP, INDEX_FINGER_TIP, MIDDLE_FINGER_TIP, RING_FINGER_TIP, PINKY_TIP>>
pip_joints == <<THUMB_IP, INDEX_FINGER_PIP, MIDDLE_FINGER_PIP, RING_FINGER_PIP, PINKY_PIP>>

Returned(v) == [raised |-> FALSE, value |-> v]
IndexError == [raised |-> TRUE, value |-> FALSE]

\* hand.landmarks[i] is in range
HasLandmark(hand, i) == i < Len(hand.landmarks)
Landmark(hand, i) == hand.landmarks[i + 1]

\* The loop of is_hand_closed over zip(fingertips, pip_joints) from pair k
\* on: the final closed_fingers, or -1 when an index is out of range.
RECURSIVE FingerLoop(_, _, _)
FingerLoop(hand, k, closed_fingers) ==
    IF k > Len(fingertips) THEN closed_fingers
    ELSE LET tip_idx == fingertips[k]
             pip_idx == pip_joints[k]
         IN IF ~HasLandmark(hand, tip_idx) \/ ~HasLandmark(hand, pip_idx) THEN -1
            ELSE LET tip == Landmark(hand, tip_idx)
                     pip == Landmark(hand, pip_idx)
                     wrist == Landmark(hand, WRIST)
                     bent == IF tip_idx = THUMB_TIP
                             THEN DistLt(tip.x - wrist.x, tip.y - wrist.y,
                                         (thumb_threshold_pct * NormScale) \div 100)
                             ELSE tip.y > pip.y
                 IN FingerLoop(hand, k + 1,
                               IF bent THEN closed_fingers + 1 ELSE closed_fingers)

\* Variant of is_hand_closed: all five fingers must be bent
is_hand_closed_AllFive(hand) ==
    IF Len(hand.landmarks) < NumLandmarks THEN Returned(FALSE)
    ELSE Returned(FingerLoop(hand, 1, 0) >= 5)

\* GestureDetector.is_hand_closed
is_hand_closed(hand) ==
    IF Len(hand.landmarks) < NumLandmarks THEN Returned(FALSE)
    ELSE IF ~HasLandmark(hand, WRIST) THEN IndexError
    ELSE LET closed_fingers == FingerLoop(hand, 1, 0)
         IN IF closed_fingers < 0 THEN IndexError ELSE Returned(closed_fingers >= 4)

NoPoint == [ok |-> FALSE, x |-> 0, y |-> 0]

\* GestureDetector.get_index_finger_tip: [ok |-> FALSE, ...] stands for None
get_index_finger_tip(hand) ==
    IF Len(hand.landmarks) > INDEX_FINGER_TIP
    THEN [ok |-> TRUE, x |-> Landmark(hand, INDEX_FINGER_TIP).x,
          y |-> Landmark(hand, INDEX_FINGER_TIP).y]
    ELSE NoPoint

(***************************************************************************)
(* Hands given to the model.                                               *)
(***************************************************************************)
\* A hand of n landmarks: the wrist at (0.5, 0.8), the thumb tip at offset
\* thumb from the wrist, the index fingertip at tip, the other fingertips
\* beside it, and each PIP joint above (fingers[k] = 1: tip.y > pip.y), level
\* with (0) or below (-1) its fingertip.
MkHand(n, thumb, fingers, tip) ==
    LET wristX == NormScale \div 2
        wristY == (8 * NormScale) \div 10
        gap == NormScale \div 40
        finger(i) == (i - INDEX_FINGER_PIP) \div 4 + 1
        lm(i) ==
            CASE i = WRIST -> [x |-> wristX, y |-> wristY]
              [] i = THUMB_TIP -> [x |-> wristX + thumb[1], y |-> wristY + thumb[2]]
              [] i \in {INDEX_FINGER_TIP, MIDDLE_FINGER_TIP, RING_FINGER_TIP, PINKY_TIP} ->
                    [x |-> tip[1] + (finger(i - 2) - 1) * gap, y |-> tip[2]]
              [] i \in {INDEX_FINGER_PIP, MIDDLE_FINGER_PIP, RING_FINGER_PIP, PINKY_PIP} ->
                    [x |-> tip[1] + (finger(i) - 1) * gap,
                     y |-> tip[2] - fingers[finger(i)] * gap]
              [] OTHER -> [x |-> wristX, y |-> wristY - gap]
    IN [landmarks |-> [i \in 1..n |-> lm(i - 1)]]

\* Thumb-tip offsets from the wrist: at distance just below 0.15, exactly
\* 0.15 (3-4-5 triangle), and above 0.15 with both components below 0.15.
ThumbOffsets ==
    LET t == (thumb_threshold_pct * NormScale) \div 100
    IN { <<(3 * t) \div 5, (4 * t) \div 5 - 1>>,
         <<(3 * t) \div 5, (4 * t) \div 5>>,
         <<t - 1, t - 1>> }

LandmarkCounts == {0, 5, INDEX_FINGER_TIP + 1, NumLandmarks - 1, NumLandmarks}

\* The hands is_hand_closed is called with
HandInputs ==
    { MkHand(n, th, f, <<NormScale \div 2, NormScale \div 2>>) :
        n \in LandmarkCounts, th \in ThumbOffsets, f \in [1..4 -> {-1, 0, 1}] }

(***************************************************************************)
(* BubbleGameViewer.run: pointer smoothing and the steps of one loop       *)
(* iteration.  A detection result is the record [present, hands]: present  *)
(* is FALSE when detect returned None.                                     *)
(***************************************************************************)
\* a / b rounded to the nearest integer
Round(a, b) == (2 * a + b) \div (2 * b)

\* Variant of Smooth: the pointer jumps to the target
Smooth_Snap(p, target) == target

\* pointer += (target_pointer - pointer) * smoothing_factor
Smooth(p, target) == p + Round((target - p) * smoothing_factor_pct, 100)

Centre == NormScale \div 2

\* Variant of PointerStep: without a hand the shooting flag is set
PointerStep_NoHandShoots(det, pointer_x, pointer_y, target_pointer_x, target_pointer_y) ==
    IF det.present /\ det.hands # <<>>
    THEN LET first == det.hands[1]
             finger_tip == get_index_finger_tip(first)
             shooting == is_hand_closed(first)
         IN [target_pointer_x |-> IF finger_tip.ok THEN finger_tip.x ELSE target_pointer_x,
             target_pointer_y |-> IF finger_tip.ok THEN finger_tip.y ELSE target_pointer_y,
             pointer_x |-> IF finger_tip.ok THEN Smooth(pointer_x, finger_tip.x)
                           ELSE pointer_x,
             pointer_y |-> IF finger_tip.ok THEN Smooth(pointer_y, finger_tip.y)
                           ELSE pointer_y,
             anchor |-> finger_tip.ok,
             is_shooting |-> shooting.value,
             raised |-> shooting.raised]
    ELSE [target_pointer_x |-> Centre,
          target_pointer_y |-> Centre,
          pointer_x |-> Smooth(pointer_x, Centre),
          pointer_y |-> Smooth(pointer_y, Centre),
          anchor |-> FALSE,
          is_shooting |-> TRUE,
          raised |-> FALSE]

\* The block "Update pointer and shooting state with smoothing" of run: the
\* new pointer, target and shooting flag; raised when is_hand_closed raised.
PointerStep(det, pointer_x, pointer_y, target_pointer_x, target_pointer_y) ==
    IF det.present /\ det.hands # <<>>
    THEN LET first == det.hands[1]
             finger_tip == get_index_finger_tip(first)
             shooting == is_hand_closed(first)
         IN [target_pointer_x |-> IF finger_tip.ok THEN finger_tip.x ELSE target_pointer_x,
             target_pointer_y |-> IF finger_tip.ok THEN finger_tip.y ELSE target_pointer_y,
             pointer_x |-> IF finger_tip.ok THEN Smooth(pointer_x, finger_tip.x)
                           ELSE pointer_x,
             pointer_y |-> IF finger_tip.ok THEN Smooth(pointer_y, finger_tip.y)
                           ELSE pointer_y,
             anchor |-> finger_tip.ok,
             is_shooting |-> shooting.value,
             raised |-> shooting.raised]
    ELSE [target_pointer_x |-> Centre,
          target_pointer_y |-> Centre,
          pointer_x |-> Smooth(pointer_x, Centre),
          pointer_y |-> Smooth(pointer_y, Centre),
          anchor |-> FALSE,
          is_shooting |-> FALSE,
          raised |-> FALSE]

\* draw_hand_landmarks indexes landmarks 0..20 of every hand of the result:
\* it raises IndexError when one of them has fewer than 21 landmarks.
DrawRaises(det) ==
    /\ det.present
    /\ \E i \in 1..Len(det.hands) : ~HasLandmark(det.hands[i], PINKY_TIP)

NoDetection == [present |-> FALSE, hands |-> <<>>]
Detected(hands) == [present |-> TRUE, hands |-> hands]

\* Hands shown to the viewer: closed or open, index fingertip at the bottom
\* right corner (1.0, 1.0) or at the top edge (0.5, 0.0), and two
\* skeletons cut short (5 landmarks: no fingertip; 20: no pinky tip).
ViewHand(n, isClosed, tip) ==
    LET t == (thumb_threshold_pct * NormScale) \div 100
    IN MkHand(n,
              IF isClosed THEN <<(3 * t) \div 5, (4 * t) \div 5 - 1>> ELSE <<t - 1, t - 1>>,
              [f \in 1..4 |-> IF isClosed THEN 1 ELSE -1],
              tip)

CornerTip == <<NormScale, NormScale>>
TopTip == <<NormScale \div 2, 0>>

DetectionInputs ==
    { NoDetection,
      Detected(<<>>),
      Detected(<<ViewHand(NumLandmarks, FALSE, CornerTip)>>),
      Detected(<<ViewHand(NumLandmarks, TRUE, TopTip)>>),
      Detected(<<ViewHand(5, FALSE, CornerTip)>>),
      Detected(<<ViewHand(NumLandmarks - 1, TRUE, TopTip)>>),
      Detected(<<ViewHand(NumLandmarks, FALSE, TopTip),
                 ViewHand(NumLandmarks, TRUE, CornerTip)>>) }

\* camera.read(): a frame, None, or (False, frame)
FrameInputs == {"ok", "none", "failed"}
\* cv2.waitKey(1) & 0xFF: no key, 'q', 'r'
KeyInputs == {"none", "q", "r"}
\* time between two loop iterations: 0.05 s, or a stall of 1.25 s
TickAdvances == {TimeScale \div 20, TimeScale + TimeScale \div 4}

(***************************************************************************)
(* MenuSystem with the two items AppFlow.show_menu registers.  A menu is   *)
(* the record [selected_index, last_selection_time]; indexes are 0-based   *)
(* as in the program and None is NoIndex.                                  *)
(***************************************************************************)
frame_width == 640
frame_height == 480
item_width == 200
item_height == 50
selection_cooldown == TimeScale
NoIndex == -1

menu_items ==
    << [text |-> "Start Game", action |-> "start_game",
        position |-> <<frame_width \div 2, frame_height \div 2 - 30>>],
       [text |-> "Exit", action |-> "exit",
        position |-> <<frame_width \div 2, frame_height \div 2 + 50>>] >>

NewMenu == [selected_index |-> 0, last_selection_time |-> 0]

\* int(v * dim) for a normalized coordinate v: truncation toward zero
FingerPixel(v, dim) ==
    IF v >= 0 THEN (v * dim) \div NormScale ELSE -(((-v) * dim) \div NormScale)

\* item_left <= finger_x <= item_right and item_top <= finger_y <= item_bottom
InItemBox(item, finger_x, finger_y) ==
    /\ item.position[1] - item_width \div 2 <= finger_x
    /\ finger_x <= item.position[1] + item_width \div 2
    /\ item.position[2] - item_height \div 2 <= finger_y
    /\ finger_y <= item.position[2] + item_height \div 2

\* Variant of ItemLoop: the last item that matches wins
RECURSIVE ItemLoop_LastMatch(_, _, _)
ItemLoop_LastMatch(idx, finger_x, finger_y) ==
    IF idx >= Len(menu_items) THEN NoIndex
    ELSE LET rest == ItemLoop_LastMatch(idx + 1, finger_x, finger_y)
         IN IF rest # NoIndex THEN rest
            ELSE IF InItemBox(menu_items[idx + 1], finger_x, finger_y) THEN idx
            ELSE NoIndex

\* for idx, item in enumerate(self.menu_items): the first idx whose box
\* contains the finger, NoIndex when the loop ends without a match
RECURSIVE ItemLoop(_, _, _)
ItemLoop(idx, finger_x, finger_y) ==
    IF idx >= Len(menu_items) THEN NoIndex
    ELSE IF InItemBox(menu_items[idx + 1], finger_x, finger_y) THEN idx
    ELSE ItemLoop(idx + 1, finger_x, finger_y)

\* MenuSystem.update_selection; read_ok: its camera.read() returns a frame.
\* reads is the number of camera.read() calls it made.
update_selection(menu, det, read_ok) ==
    IF ~det.present \/ det.hands = <<>> THEN [menu |-> menu, reads |-> 0]
    ELSE LET finger_tip == get_index_finger_tip(det.hands[1])
         IN IF ~finger_tip.ok THEN [menu |-> menu, reads |-> 0]
            ELSE IF ~read_ok THEN [menu |-> menu, reads |-> 1]
            ELSE LET idx == ItemLoop(0, FingerPixel(finger_tip.x, frame_width),
                                        FingerPixel(finger_tip.y, frame_height))
                 IN [menu |-> IF idx # NoIndex
                              THEN [menu EXCEPT !.selected_index = idx]
                              ELSE menu,
                     reads |-> 1]

\* Variant of check_menu_selection: an attempt rejected by the cooldown
\* restarts the cooldown
check_menu_selection_RejectResets(menu, det, current_time, read_ok) ==
    LET none(n) == [menu |-> menu, ret |-> NoIndex, reads |-> n]
        restarted == [menu EXCEPT !.last_selection_time = current_time]
    IN IF ~det.present \/ det.hands = <<>> THEN none(0)
       ELSE IF current_time - menu.last_selection_time < selection_cooldown
       THEN [menu |-> restarted, ret |-> NoIndex, reads |-> 0]
       ELSE IF ~is_hand_closed(det.hands[1]).value THEN none(0)
       ELSE LET finger_tip == get_index_finger_tip(det.hands[1])
            IN IF ~finger_tip.ok THEN none(0)
               ELSE IF ~read_ok THEN none(1)
               ELSE LET idx == ItemLoop(0, FingerPixel(finger_tip.x, frame_width),
                                           FingerPixel(finger_tip.y, frame_height))
                    IN IF idx # NoIndex
                       THEN [menu |-> restarted, ret |-> idx, reads |-> 1]
                       ELSE none(1)

\* MenuSystem.check_menu_selection at time.time() = current_time
check_menu_selection(menu, det, current_time, read_ok) ==
    LET none(n) == [menu |-> menu, ret |-> NoIndex, reads |-> n]
    IN IF ~det.present \/ det.hands = <<>> THEN none(0)
       ELSE IF current_time - menu.last_selection_time < selection_cooldown THEN none(0)
       ELSE IF ~is_hand_closed(det.hands[1]).value THEN none(0)
       ELSE LET finger_tip == get_index_finger_tip(det.hands[1])
            IN IF ~finger_tip.ok THEN none(0)
               ELSE IF ~read_ok THEN none(1)
               ELSE LET idx == ItemLoop(0, FingerPixel(finger_tip.x, frame_width),
                                           FingerPixel(finger_tip.y, frame_height))
                    IN IF idx # NoIndex
                       THEN [menu |-> [menu EXCEPT !.last_selection_time = current_time],
                             ret |-> idx, reads |-> 1]
                       ELSE none(1)

\* The normalized coordinate shown at pixel px of a frame of size dim, and a
\* fingertip at pixel (px, py) with a further off units of the model
AtPixel(px, dim) == (px * NormScale) \div dim
TipAt(px, py, off) == <<AtPixel(px, frame_width) + off, AtPixel(py, frame_height) + off>>

\* Detection results shown to the menu: closed hands on the centre of "Start
\* Game", on the left edge of its box, one unit left of that edge, on the
\* lower right corner of "Exit", below that corner, and far from both boxes;
\* an open hand on "Start Game"; short skeletons.
MenuDetections ==
    { NoDetection,
      Detected(<<>>),
      Detected(<<ViewHand(NumLandmarks, TRUE, TipAt(320, 210, 0))>>),
      Detected(<<ViewHand(NumLandmarks, TRUE, TipAt(220, 210, 0))>>),
      Detected(<<ViewHand(NumLandmarks, TRUE, TipAt(220, 210, -1))>>),
      Detected(<<ViewHand(NumLandmarks, TRUE, TipAt(420, 315, 0))>>),
      Detected(<<ViewHand(NumLandmarks, TRUE, TipAt(420, 330, 0))>>),
      Detected(<<ViewHand(NumLandmarks, FALSE, TipAt(320, 210, 0))>>),
      Detected(<<ViewHand(NumLandmarks - 1, TRUE, TipAt(320, 290, 0))>>),
      Detected(<<ViewHand(5, TRUE, TipAt(320, 210, 0))>>) }

\* time between two calls: 0.5 s and 0.6 s
MenuAdvances == {TimeScale \div 2, (3 * TimeScale) \div 5}

(***************************************************************************)
(* OpenCVCamera and MediaPipeHandDetector.  The record r holds both        *)
(* objects: cap is what OpenCVCamera.cap refers to ("none", an "open"      *)
(* capture, or a "closed" one that failed to open), opened is _opened,     *)
(* hands is what MediaPipeHandDetector.hands refers to ("none" or "live"), *)
(* initialized is _initialized.  open() and initialize() assign a new      *)
(* object to cap / hands without releasing the one held before: whether    *)
(* that object is finalized when it becomes unreachable is up to the       *)
(* interpreter (finalized), and unreleased_caps / unreleased_hands count   *)
(* the open captures and live detector instances that were neither         *)
(* released nor finalized.  failed and retries record the history of       *)
(* open()/initialize(): a call has failed; calls made after a failure.     *)
(***************************************************************************)
OpenOutcomes == {"opened", "not_opened", "raised"}

\* OpenCVCamera.open: isOpened() true, isOpened() false, or VideoCapture raised
camera_open(r, outcome, finalized) ==
    [r EXCEPT !.cap = CASE outcome = "opened" -> "open"
                        [] outcome = "not_opened" -> "closed"
                        [] OTHER -> r.cap,
              !.opened = (outcome = "opened"),
              !.unreleased_caps =
                  IF r.cap = "open" /\ outcome # "raised" /\ ~finalized THEN @ + 1 ELSE @,
              !.failed = @ \/ outcome # "opened",
              !.retries = IF r.failed THEN @ + 1 ELSE @]

\* OpenCVCamera.read: None unless opened; frame is what cap.read() delivers
camera_read(r, frame) ==
    IF ~r.opened \/ r.cap = "none" THEN "none" ELSE frame

\* Variant of camera_release: the capture is kept
camera_release_Keeps(r) == [r EXCEPT !.opened = FALSE]

\* OpenCVCamera.release
camera_release(r) == [r EXCEPT !.cap = "none", !.opened = FALSE]

\* MediaPipeHandDetector.initialize: Hands(...) returned, or raised
detector_initialize(r, ok, finalized) ==
    IF ok
    THEN [r EXCEPT !.hands = "live",
                   !.initialized = TRUE,
                   !.unreleased_hands = IF r.hands = "live" /\ ~finalized THEN @ + 1 ELSE @,
                   !.retries = IF r.failed THEN @ + 1 ELSE @]
    ELSE [r EXCEPT !.initialized = FALSE,
                   !.failed = TRUE,
                   !.retries = IF r.failed THEN @ + 1 ELSE @]

\* MediaPipeHandDetector.release
detector_release(r) == [r EXCEPT !.hands = "none", !.initialized = FALSE]

NewResources ==
    [cap |-> "none", opened |-> FALSE, hands |-> "none", initialized |-> FALSE,
     unreleased_caps |-> 0, unreleased_hands |-> 0, failed |-> FALSE, retries |-> 0]

(***************************************************************************)
(* State.                                                                  *)
(***************************************************************************)
VARIABLES
    bubbles,            \* BubbleGame.bubbles
    next_bubble_id,     \* BubbleGame.next_bubble_id
    last_spawn_time,    \* BubbleGame.last_spawn_time
    score,              \* BubbleGame.score
    bubbles_popped,     \* BubbleGame.bubbles_popped
    now,                \* the last value read from time.time()
    call,               \* the last call made on the game, its arguments and result
    calls,              \* number of calls made so far
    created,            \* ids of the bubbles created so far, in creation order
    hand,               \* argument of the last is_hand_closed call
    closed,             \* result of the last is_hand_closed call
    vstate,             \* BubbleGameViewer.run: "start", "loop" or "stopped"
    pointer_x,          \* local pointer_x of run
    pointer_y,          \* local pointer_y of run
    target_pointer_x,   \* local target_pointer_x of run
    target_pointer_y,   \* local target_pointer_y of run
    is_shooting,        \* local is_shooting of run
    last_update_time,   \* BubbleGameViewer.last_update_time
    camera_cap,         \* OpenCVCamera.cap: "none", "open" or "closed"
    camera_opened,      \* OpenCVCamera._opened
    detector_hands,     \* MediaPipeHandDetector.hands: "none" or "live"
    detector_initialized, \* MediaPipeHandDetector._initialized
    unreleased_caps,    \* open captures that cap no longer refers to
    unreleased_hands,   \* live detector instances that hands no longer refers to
    startup_failed,     \* an open() or initialize() call has failed
    retries,            \* open()/initialize() calls made after a failed one
    selected_index,     \* MenuSystem.selected_index
    last_selection_time, \* MenuSystem.last_selection_time
    mcall,              \* the last call made on the menu, its arguments and result
    pc,                 \* AppFlow.run: "start", "menu", "game" or "done"
    mtick,              \* inputs and outcome of the last iteration of MenuSystem.run
    menu_ticks,         \* number of iterations of MenuSystem.run so far
    tick,               \* inputs and outcome of the last loop iteration
    ticks               \* number of loop iterations so far

gameVars == <<bubbles, next_bubble_id, last_spawn_time, score, bubbles_popped>>
callVars == <<call, calls>>
gestureVars == <<hand, closed>>
pointerVars == <<pointer_x, pointer_y, target_pointer_x, target_pointer_y, is_shooting>>
resourceVars == <<camera_cap, camera_opened, detector_hands, detector_initialized,
                  unreleased_caps, unreleased_hands, startup_failed, retries>>
menuVars == <<selected_index, last_selection_time, mcall>>
flowVars == <<pc, mtick, menu_ticks>>
viewVars == <<vstate, pointerVars, last_update_time, resourceVars, tick, ticks>>
vars == <<gameVars, now, callVars, created, gestureVars, viewVars, menuVars, flowVars>>

\* The camera and the detector as one value, and its assignment
Resources ==
    [cap |-> camera_cap, opened |-> camera_opened,
     hands |-> detector_hands, initialized |-> detector_initialized,
     unreleased_caps |-> unreleased_caps, unreleased_hands |-> unreleased_hands,
     failed |-> startup_failed, retries |-> retries]

SetResources(r) ==
    /\ camera_cap' = r.cap
    /\ camera_opened' = r.opened
    /\ detector_hands' = r.hands
    /\ detector_initialized' = r.initialized
    /\ unreleased_caps' = r.unreleased_caps
    /\ unreleased_hands' = r.unreleased_hands
    /\ startup_failed' = r.failed
    /\ retries' = r.retries

\* The menu as one value, and its assignment
M == [selected_index |-> selected_index, last_selection_time |-> last_selection_time]

SetMenu(menu) ==
    /\ selected_index' = menu.selected_index
    /\ last_selection_time' = menu.last_selection_time

\* The BubbleGame object as a value
G ==
    [bubbles |-> bubbles, next_bubble_id |-> next_bubble_id,
     last_spawn_time |-> last_spawn_time, score |-> score,
     bubbles_popped |-> bubbles_popped]

SetGame(g) ==
    /\ bubbles' = g.bubbles
    /\ next_bubble_id' = g.next_bubble_id
    /\ last_spawn_time' = g.last_spawn_time
    /\ score' = g.score
    /\ bubbles_popped' = g.bubbles_popped

NoCall ==
    [op |-> "none", delta_time |-> 0, pointer_x |-> 0, pointer_y |-> 0,
     is_shooting |-> FALSE, ret |-> <<>>, score_before |-> 0]

\* created after a spawn block that took g to g1
Created(g, g1) ==
    IF Len(g1.bubbles) > Len(g.bubbles)
    THEN Append(created, g1.bubbles[Len(g1.bubbles)].id)
    ELSE created

(***************************************************************************)
(* Inputs of the calls.                                                    *)
(***************************************************************************)
\* time that passes between two readings of the clock: 0 or 1.25 s
ClockAdvances == {0, TimeScale + TimeScale \div 4}
\* delta_time arguments: 0 and 0.15 s (above the 0.1 s clamp)
DeltaInputs == {0, (3 * TimeScale) \div 20}

\* Pointer positions tried against bubble b: its centre, the two points at
\* pixel distance exactly radius * 1.1 (on the x axis, and on the 3-4-5
\* diagonal when radius is a multiple of 5), and the next representable
\* point beyond the first.
PointersAt(b) ==
    { <<b.x, b.y>>,
      <<b.x + (11 * b.radius * PxX) \div 10, b.y>>,
      <<b.x + (11 * b.radius * PxX) \div 10 + 1, b.y>>,
      <<b.x - (66 * b.radius * PxX) \div 100, b.y + (88 * b.radius * PxY) \div 100>> }

PointerInputs ==
    {<<NormScale \div 2, NormScale \div 2>>}
        \cup UNION {PointersAt(bubbles[i]) : i \in 1..Len(bubbles)}

(***************************************************************************)
(* A BubbleGame driven call by call by an arbitrary caller.                *)
(***************************************************************************)
NoHand == [landmarks |-> <<>>]

\* time.time() when the program starts: seconds since 1970, far above every
\* interval the program compares against; the model only needs it above them
ClockAtStart == 3 * TimeScale

GameInit ==
    /\ bubbles = NewGame(ClockAtStart).bubbles
    /\ next_bubble_id = NewGame(ClockAtStart).next_bubble_id
    /\ last_spawn_time = NewGame(ClockAtStart).last_spawn_time
    /\ score = NewGame(ClockAtStart).score
    /\ bubbles_popped = NewGame(ClockAtStart).bubbles_popped
    /\ created = <<>>

GestureInit ==
    /\ hand = NoHand
    /\ closed = Returned(FALSE)

NoTick ==
    [frame |-> "none", det |-> NoDetection, reads |-> 0, anchor |-> FALSE,
     collided |-> FALSE, ret |-> <<>>, key |-> "none", outcome |-> "none"]

\* BubbleGameViewer.__init__; the locals of run do not exist yet
ViewInit ==
    /\ vstate = "start"
    /\ pointer_x = 0
    /\ pointer_y = 0
    /\ target_pointer_x = 0
    /\ target_pointer_y = 0
    /\ is_shooting = FALSE
    /\ last_update_time = ClockAtStart
    /\ camera_cap = NewResources.cap
    /\ camera_opened = NewResources.opened
    /\ detector_hands = NewResources.hands
    /\ detector_initialized = NewResources.initialized
    /\ unreleased_caps = NewResources.unreleased_caps
    /\ unreleased_hands = NewResources.unreleased_hands
    /\ startup_failed = NewResources.failed
    /\ retries = NewResources.retries
    /\ tick = NoTick
    /\ ticks = 0

NoMenuCall ==
    [op |-> "none", det |-> NoDetection, read_ok |-> TRUE, ret |-> NoIndex, reads |-> 0,
     attempts |-> <<>>]

\* MenuSystem.__init__ followed by the two add_menu_item calls of show_menu
MenuInit ==
    /\ selected_index = NewMenu.selected_index
    /\ last_selection_time = NewMenu.last_selection_time
    /\ mcall = NoMenuCall

NoMenuTick ==
    [frame |-> "none", det |-> NoDetection, reads |-> 0, failed_reads |-> 0,
     selected |-> NoIndex, result |-> "none", key |-> "none", outcome |-> "none"]

\* AppFlow.__init__
FlowInit ==
    /\ pc = "start"
    /\ mtick = NoMenuTick
    /\ menu_ticks = 0

Init ==
    /\ now = ClockAtStart
    /\ GameInit
    /\ call = NoCall
    /\ calls = 0
    /\ GestureInit
    /\ ViewInit
    /\ MenuInit
    /\ FlowInit

UpdateCall(adv, delta_time, d) ==
    /\ calls < MaxCalls
    /\ now' = now + adv
    /\ SetGame(update(G, delta_time, now', d))
    /\ created' = Created(G, SpawnStep(G, now', d))
    /\ call' = [NoCall EXCEPT !.op = "update", !.delta_time = delta_time,
                              !.score_before = score]
    /\ calls' = calls + 1
    /\ UNCHANGED <<gestureVars, viewVars, menuVars, flowVars>>

CollisionCall(p, shooting) ==
    /\ calls < MaxCalls
    /\ LET r == check_collisions(G, p[1], p[2], shooting)
       IN /\ SetGame(r.game)
          /\ call' = [NoCall EXCEPT !.op = "check_collisions", !.pointer_x = p[1],
                                    !.pointer_y = p[2], !.is_shooting = shooting,
                                    !.ret = r.ret, !.score_before = score]
    /\ calls' = calls + 1
    /\ UNCHANGED <<now, created, gestureVars, viewVars, menuVars, flowVars>>

ResetCall(adv) ==
    /\ calls < MaxCalls
    /\ now' = now + adv
    /\ SetGame(reset(G, now'))
    /\ call' = [NoCall EXCEPT !.op = "reset", !.score_before = score]
    /\ calls' = calls + 1
    /\ UNCHANGED <<created, gestureVars, viewVars, menuVars, flowVars>>

Next ==
    \/ \E adv \in ClockAdvances, delta_time \in DeltaInputs, d \in SpawnDraws :
          UpdateCall(adv, delta_time, d)
    \/ \E p \in PointerInputs, shooting \in BOOLEAN : CollisionCall(p, shooting)
    \/ \E adv \in ClockAdvances : ResetCall(adv)

Spec == Init /\ [][Next]_vars

(***************************************************************************)
(* BubbleGame._spawn_bubble called on its own, with draws at the ends of   *)
(* the ranges of random.uniform and random.randint.                        *)
(***************************************************************************)
EdgeDraws ==
    [radius : {min_radius, max_radius}, side : 0..3,
     along : {(15 * NormScale) \div 100, (85 * NormScale) \div 100},
     lateral : {-15, 15}, inbound : {8, 25}, color : {0}]

\* _spawn_bubble as update calls it: only below max_bubbles
SpawnCall(d) ==
    /\ Len(bubbles) < max_bubbles
    /\ SetGame(_spawn_bubble(G, d))
    /\ created' = Append(created, next_bubble_id)
    /\ call' = [NoCall EXCEPT !.op = "spawn"]
    /\ UNCHANGED <<now, calls, gestureVars, viewVars, menuVars, flowVars>>

SpawnNext == \E d \in EdgeDraws \cup SpawnDraws : SpawnCall(d)

SpecSpawn == Init /\ [][SpawnNext]_vars

(***************************************************************************)
(* GestureDetector.is_hand_closed called on one hand after another.        *)
(***************************************************************************)
ClassifyCall(h) ==
    /\ hand' = h
    /\ closed' = is_hand_closed(h)
    /\ UNCHANGED <<gameVars, now, callVars, created, viewVars, menuVars, flowVars>>

GestureNext == \E h \in HandInputs : ClassifyCall(h)

SpecGesture == Init /\ [][GestureNext]_vars

(***************************************************************************)
(* A MenuSystem driven call by call.                                       *)
(***************************************************************************)
\* A selection attempt: a closed first hand whose fingertip is on a menu item.
\* mcall.attempts lists the attempts made so far: <<time, fired, read_ok>>.
IsAttempt(det) ==
    /\ det.present
    /\ det.hands # <<>>
    /\ is_hand_closed(det.hands[1]).value
    /\ get_index_finger_tip(det.hands[1]).ok
    /\ ItemLoop(0, FingerPixel(get_index_finger_tip(det.hands[1]).x, frame_width),
                   FingerPixel(get_index_finger_tip(det.hands[1]).y, frame_height)) # NoIndex

UpdateSelectionCall(det, read_ok) ==
    /\ calls < MaxCalls
    /\ LET r == update_selection(M, det, read_ok)
       IN /\ SetMenu(r.menu)
          /\ mcall' = [op |-> "update_selection", det |-> det, read_ok |-> read_ok,
                       ret |-> NoIndex, reads |-> r.reads, attempts |-> mcall.attempts]
    /\ calls' = calls + 1
    /\ UNCHANGED <<gameVars, now, call, created, gestureVars, viewVars, flowVars>>

CheckSelectionCall(adv, det, read_ok) ==
    /\ calls < MaxCalls
    /\ now' = now + adv
    /\ LET r == check_menu_selection(M, det, now', read_ok)
       IN /\ SetMenu(r.menu)
          /\ mcall' = [op |-> "check_menu_selection", det |-> det, read_ok |-> read_ok,
                       ret |-> r.ret, reads |-> r.reads,
                       attempts |-> IF IsAttempt(det)
                                    THEN Append(mcall.attempts, <<now', r.ret # NoIndex, read_ok>>)
                                    ELSE mcall.attempts]
    /\ calls' = calls + 1
    /\ UNCHANGED <<gameVars, call, created, gestureVars, viewVars, flowVars>>

MenuNext ==
    \/ \E det \in MenuDetections, read_ok \in BOOLEAN : UpdateSelectionCall(det, read_ok)
    \/ \E adv \in MenuAdvances, det \in MenuDetections, read_ok \in BOOLEAN :
          CheckSelectionCall(adv, det, read_ok)

SpecMenu == Init /\ [][MenuNext]_vars

(***************************************************************************)
(* BubbleGameViewer.run: start-up, the loop, the finally block.            *)
(***************************************************************************)
\* finally: camera.release(), detector.release()
Cleanup ==
    /\ vstate' = "stopped"
    /\ SetResources(detector_release(camera_release(Resources)))

\* run up to the loop: detector.initialize(), camera.open(), first read,
\* BubbleGame(...), the locals.  The returns before the try release by hand.
RunStart(adv, init_ok, open, read_ok, finalized) ==
    /\ vstate = "start"
    /\ now' = now + adv
    /\ LET r1 == detector_initialize(Resources, init_ok, finalized)
           r2 == camera_open(r1, open, finalized)
           frame == camera_read(r2, IF read_ok THEN "ok" ELSE "none")
       IN IF ~init_ok
          THEN /\ vstate' = "stopped"
               /\ SetResources(r1)
               /\ tick' = [NoTick EXCEPT !.outcome = "initialize_failed"]
               /\ UNCHANGED <<gameVars, pointerVars, last_update_time>>
          ELSE IF open # "opened"
          THEN /\ vstate' = "stopped"
               /\ SetResources(detector_release(r2))
               /\ tick' = [NoTick EXCEPT !.outcome = "open_failed"]
               /\ UNCHANGED <<gameVars, pointerVars, last_update_time>>
          ELSE IF frame = "none"
          THEN /\ vstate' = "stopped"
               /\ SetResources(detector_release(camera_release(r2)))
               /\ tick' = [NoTick EXCEPT !.outcome = "read_failed"]
               /\ UNCHANGED <<gameVars, pointerVars, last_update_time>>
          ELSE /\ vstate' = "loop"
               /\ SetResources(r2)
               /\ SetGame(NewGame(now'))
               /\ last_update_time' = now'
               /\ pointer_x' = Centre
               /\ pointer_y' = Centre
               /\ target_pointer_x' = Centre
               /\ target_pointer_y' = Centre
               /\ is_shooting' = FALSE
               /\ tick' = NoTick
    /\ UNCHANGED <<callVars, created, gestureVars, ticks, menuVars, flowVars>>

\* One iteration of the loop of run
TickStep(adv, frame, det, d, key) ==
    /\ vstate = "loop"
    /\ now' = now + adv
    /\ last_update_time' = now'
    /\ ticks' = ticks + 1
    /\ IF frame # "ok"
       THEN \* result is None, or not success: break
            /\ Cleanup
            /\ tick' = [NoTick EXCEPT !.frame = frame, !.reads = 1,
                                      !.outcome = "read_failed"]
            /\ UNCHANGED <<gameVars, created, pointerVars>>
       ELSE LET delta_time == now' - last_update_time
                clamped_delta == Min(delta_time, TimeScale \div 10)
                g1 == update(G, clamped_delta, now', d)
                ps == PointerStep(det, pointer_x, pointer_y,
                                  target_pointer_x, target_pointer_y)
                collide == ps.is_shooting /\ ~ps.raised
                cc == IF collide
                      THEN check_collisions(g1, ps.pointer_x, ps.pointer_y, ps.is_shooting)
                      ELSE [game |-> g1, ret |-> <<>>]
                raised == ps.raised \/ DrawRaises(det)
                resetKey == ~raised /\ key = "r"
                g3 == IF resetKey THEN reset(cc.game, now') ELSE cc.game
            IN /\ SetGame(g3)
               /\ created' = Created(G, SpawnStep(G, now', d))
               /\ pointer_x' = ps.pointer_x
               /\ pointer_y' = ps.pointer_y
               /\ target_pointer_x' = ps.target_pointer_x
               /\ target_pointer_y' = ps.target_pointer_y
               /\ is_shooting' = ps.is_shooting
               /\ tick' = [frame |-> frame, det |-> det, reads |-> 1, anchor |-> ps.anchor,
                           collided |-> collide, ret |-> cc.ret,
                           key |-> IF raised THEN "none" ELSE key,
                           outcome |-> IF raised THEN "exception"
                                       ELSE IF key = "q" THEN "quit" ELSE "continue"]
               /\ IF raised \/ key = "q"
                  THEN Cleanup
                  ELSE UNCHANGED <<vstate, resourceVars>>
    /\ UNCHANGED <<callVars, gestureVars, menuVars, flowVars>>

Tick(adv, frame, det, d, key) ==
    /\ ticks < MaxTicks
    /\ TickStep(adv, frame, det, d, key)

\* KeyboardInterrupt between two iterations: except, then finally
Interrupt ==
    /\ vstate = "loop"
    /\ Cleanup
    /\ tick' = [NoTick EXCEPT !.outcome = "interrupt"]
    /\ UNCHANGED <<gameVars, now, callVars, created, gestureVars, pointerVars,
                   last_update_time, ticks, menuVars, flowVars>>

\* random draws are taken only when update spawns; otherwise one stand-in
DrawsAt(current_time) ==
    IF SpawnDue(G, current_time) THEN SpawnDraws ELSE {CHOOSE d \in SpawnDraws : TRUE}

ViewNext ==
    \/ \E adv \in TickAdvances, init_ok, read_ok, finalized \in BOOLEAN,
          open \in OpenOutcomes : RunStart(adv, init_ok, open, read_ok, finalized)
    \/ \E adv \in TickAdvances, frame \in FrameInputs, det \in DetectionInputs,
          key \in KeyInputs :
          \E d \in DrawsAt(now + adv) : Tick(adv, frame, det, d, key)
    \/ Interrupt

SpecView == Init /\ [][ViewNext]_vars

(***************************************************************************)
(* BubbleGameViewer.run over a longer game: the camera delivers every      *)
(* frame, the player holds a closed hand at the top edge or shows no hand, *)
(* and bubbles enter from the top.                                         *)
(***************************************************************************)
PlayDetections ==
    { NoDetection,
      Detected(<<ViewHand(NumLandmarks, TRUE, TopTip)>>) }

PlayDraws == {d \in SpawnDraws : d.side = 0}

PlayKeys == {"none", "r"}

PlayAdvances == {TimeScale + TimeScale \div 4}

PlayDrawsAt(current_time) ==
    IF SpawnDue(G, current_time) THEN PlayDraws ELSE {CHOOSE d \in PlayDraws : TRUE}

PlayStart ==
    \E adv \in PlayAdvances : RunStart(adv, TRUE, "opened", TRUE, FALSE)

PlayTick(adv, det, d, key) ==
    /\ ticks < MaxPlayTicks
    /\ TickStep(adv, "ok", det, d, key)

PlayNext ==
    \/ PlayStart
    \/ \E adv \in PlayAdvances, det \in PlayDetections, key \in PlayKeys :
          \E d \in PlayDrawsAt(now + adv) : PlayTick(adv, det, d, key)

SpecPlay == Init /\ [][PlayNext]_vars

(***************************************************************************)
(* BubbleGameViewer.run as long as its loop is left running: every frame   *)
(* arrives, no hand is shown, the clock advances by 0.65 s or 1.25 s per   *)
(* tick and the player may press the reset key.  `while True` takes the    *)
(* next iteration whenever it can: weak fairness on the steps of the loop. *)
(* The loop is followed for the time max_bubbles spawns need at most.      *)
(***************************************************************************)
LiveAdvances == {(13 * TimeScale) \div 20, TimeScale + TimeScale \div 4}

LiveKeys == {"none", "r"}

LiveTicks == 2 * max_bubbles

LiveStart ==
    \E adv \in LiveAdvances : RunStart(adv, TRUE, "opened", TRUE, FALSE)

LiveTick(adv, d, key) ==
    /\ ticks < LiveTicks
    /\ TickStep(adv, "ok", NoDetection, d, key)

LiveNext ==
    \/ LiveStart
    \/ \E adv \in LiveAdvances, key \in LiveKeys :
          \E d \in PlayDrawsAt(now + adv) : LiveTick(adv, d, key)

SpecLive == Init /\ [][LiveNext]_vars /\ WF_vars(LiveNext)

(***************************************************************************)
(* AppFlow.run: show_menu, MenuSystem.run, run_game, the finally block.    *)
(***************************************************************************)
\* `if result:` on the value an item action returned ("none" is None)
Truthy(result) == result \notin {"none", ""}

\* Variant of AfterMenu: every result starts the game
AfterMenu_ExitPlays(menu_result) == "game"

\* AppFlow.run after show_menu returned menu_result: return, or run_game
AfterMenu(menu_result) == IF menu_result = "exit" THEN "done" ELSE "game"

\* show_menu: `return result if result else "exit"`
ShowMenuReturn(result) == IF Truthy(result) THEN result ELSE "exit"

\* finally of AppFlow.run, r being the camera and detector at that point
FlowExit(r, outcome) ==
    /\ pc' = "done"
    /\ SetResources(detector_release(camera_release(r)))
    /\ mtick' = [NoMenuTick EXCEPT !.outcome = outcome]

\* show_menu up to menu.run(), and menu.run() up to its loop
ShowMenu(open1, init1, read_ok, init2, open2, finalized) ==
    /\ pc = "start"
    /\ LET r1 == camera_open(Resources, open1, finalized)
           r2 == detector_initialize(r1, init1, finalized)
           frame == camera_read(r2, IF read_ok THEN "ok" ELSE "none")
           r3 == detector_initialize(r2, init2, finalized)
           r4 == camera_open(r3, open2, finalized)
       IN IF open1 # "opened" THEN FlowExit(r1, "open_failed")
          ELSE IF ~init1 THEN FlowExit(r2, "initialize_failed")
          ELSE IF frame = "none" THEN FlowExit(r2, "read_failed")
          ELSE IF ~init2 THEN FlowExit(r3, "initialize_failed")
          ELSE IF open2 # "opened" THEN FlowExit(detector_release(r4), "open_failed")
          ELSE /\ pc' = "menu"
               /\ SetResources(r4)
               /\ mtick' = NoMenuTick
    /\ SetMenu(NewMenu)
    /\ UNCHANGED <<gameVars, now, callVars, created, gestureVars, vstate, pointerVars,
                   last_update_time, tick, ticks, mcall, menu_ticks>>

\* One iteration of the loop of MenuSystem.run, and what AppFlow.run does
\* when that iteration returns
MenuTick(adv, frame, det, read1, read2, key) ==
    /\ pc = "menu"
    /\ menu_ticks < MaxMenuTicks
    /\ menu_ticks' = menu_ticks + 1
    /\ now' = now + adv
    /\ LET result == camera_read(Resources, frame)
           upd == IF det.present
                  THEN update_selection(M, det, camera_read(Resources, read1) = "ok")
                  ELSE [menu |-> M, reads |-> 0]
           chk == check_menu_selection(upd.menu, det, now',
                                       camera_read(Resources, read2) = "ok")
           action == IF chk.ret # NoIndex THEN menu_items[chk.ret + 1].action ELSE "none"
           returned == chk.ret # NoIndex /\ Truthy(action)
           lost(n, r) == IF n = 1 /\ r = "none" THEN 1 ELSE 0
           this(outcome) == [frame |-> frame, det |-> det,
                             reads |-> 1 + upd.reads + chk.reads,
                             failed_reads |-> lost(upd.reads, read1) + lost(chk.reads, read2),
                             selected |-> chk.ret, result |-> action, key |-> key,
                             outcome |-> outcome]
           leave(menu_result, outcome) ==
               IF AfterMenu(ShowMenuReturn(menu_result)) = "done"
               THEN /\ pc' = "done"
                    /\ SetResources(detector_release(camera_release(Resources)))
                    /\ UNCHANGED last_update_time
               ELSE /\ pc' = "game"
                    /\ last_update_time' = now'
                    /\ UNCHANGED resourceVars
       IN IF result # "ok"
          THEN /\ leave("none", "read_failed")
               /\ mtick' = [NoMenuTick EXCEPT !.frame = frame, !.reads = 1,
                                              !.failed_reads = 1,
                                              !.outcome = "read_failed"]
               /\ UNCHANGED <<selected_index, last_selection_time>>
          ELSE /\ SetMenu(chk.menu)
               /\ IF returned
                  THEN /\ leave(action, action)
                       /\ mtick' = this(action)
                  ELSE IF key = "q"
                  THEN /\ leave("none", "quit")
                       /\ mtick' = this("quit")
                  ELSE /\ mtick' = this("continue")
                       /\ UNCHANGED <<pc, resourceVars, last_update_time>>
    /\ UNCHANGED <<gameVars, callVars, created, gestureVars, vstate, pointerVars,
                   tick, ticks, mcall>>

\* KeyboardInterrupt between two iterations of MenuSystem.run: its except and
\* finally, `return None`, then AppFlow.run returns through its finally
MenuInterrupt ==
    /\ pc = "menu"
    /\ FlowExit(Resources, "interrupt")
    /\ UNCHANGED <<gameVars, now, callVars, created, gestureVars, vstate, pointerVars,
                   last_update_time, tick, ticks, menuVars, menu_ticks>>

\* Detection results, clock steps and keys given to the game inside a session
FlowDetections ==
    { NoDetection,
      Detected(<<ViewHand(NumLandmarks, TRUE, TopTip)>>),
      Detected(<<ViewHand(5, FALSE, CornerTip)>>),
      Detected(<<ViewHand(NumLandmarks, FALSE, TopTip),
                 ViewHand(NumLandmarks, TRUE, CornerTip)>>),
      Detected(<<ViewHand(NumLandmarks, TRUE, TopTip),
                 ViewHand(5, FALSE, CornerTip)>>) }

FlowMenuDetections ==
    { NoDetection,
      Detected(<<ViewHand(NumLandmarks, TRUE, TipAt(320, 210, 0))>>),
      Detected(<<ViewHand(NumLandmarks, TRUE, TipAt(420, 315, 0))>>),
      Detected(<<ViewHand(NumLandmarks, FALSE, TipAt(320, 210, 0))>>),
      Detected(<<ViewHand(5, TRUE, TipAt(320, 210, 0))>>),
      Detected(<<ViewHand(NumLandmarks, FALSE, TipAt(320, 210, 0)),
                 ViewHand(NumLandmarks, TRUE, TipAt(320, 290, 0))>>) }

FlowAdvances == {TimeScale \div 2}

\* run_game: BubbleGameViewer.run inside the session
RunGame ==
    /\ pc = "game"
    /\ \/ \E adv \in FlowAdvances, init_ok, read_ok, finalized \in BOOLEAN,
            open \in OpenOutcomes : RunStart(adv, init_ok, open, read_ok, finalized)
       \/ \E adv \in FlowAdvances, frame \in FrameInputs, det \in FlowDetections,
            key \in KeyInputs :
            \E d \in DrawsAt(now + adv) : Tick(adv, frame, det, d, key)
       \/ Interrupt

\* BubbleGameViewer.run has returned or raised: except and finally of AppFlow.run
FlowFinish ==
    /\ pc = "game"
    /\ vstate = "stopped"
    /\ pc' = "done"
    /\ SetResources(detector_release(camera_release(Resources)))
    /\ UNCHANGED <<gameVars, now, callVars, created, gestureVars, vstate, pointerVars,
                   last_update_time, tick, ticks, menuVars, mtick, menu_ticks>>

FlowNext ==
    \/ \E open1, open2 \in OpenOutcomes, init1, read_ok, init2, finalized \in BOOLEAN :
          ShowMenu(open1, init1, read_ok, init2, open2, finalized)
    \/ \E adv \in FlowAdvances, frame \in FrameInputs, det \in FlowMenuDetections,
          read1, read2 \in {"ok", "none"}, key \in {"none", "q"} :
          MenuTick(adv, frame, det, read1, read2, key)
    \/ MenuInterrupt
    \/ RunGame
    \/ FlowFinish

SpecFlow == Init /\ [][FlowNext]_vars

(***************************************************************************)
(* Vocabulary of the properties.                                           *)
(***************************************************************************)
\* 10 * (pixel distance from the pointer to the centre of b) <= 11 * radius.
\* Pixel offsets are taken in 1/240 pixel: 4 units of x and 3 units of y.
WithinReach(b, px, py) ==
    LET dx == 4 * Abs(px - b.x)
        dy == 3 * Abs(py - b.y)
        lim == 264 * b.radius
    IN IF dx > lim \/ dy > lim THEN FALSE ELSE dx * dx + dy * dy <= lim * lim

\* pixel distance from the pointer to the centre of b = 1.1 * radius
OnReachBoundary(b, px, py) ==
    LET dx == 4 * Abs(px - b.x)
        dy == 3 * Abs(py - b.y)
        lim == 264 * b.radius
    IN dx <= lim /\ dy <= lim /\ dx * dx + dy * dy = lim * lim

RECURSIVE SumPoints(_)
SumPoints(S) ==
    IF S = {} THEN 0
    ELSE LET b == CHOOSE e \in S : TRUE IN b.points + SumPoints(S \ {b})

Elems(lst) == {lst[i] : i \in 1..Len(lst)}

IsCollisionCall == call'.op = "check_collisions"
IsUpdateCall == call'.op = "update"
IsResetCall == call'.op = "reset"

(***************************************************************************)
(* C1.  A shooting check_collisions pops, in that one call, every active   *)
(* bubble within hit range: the score grows by the sum of their point      *)
(* values, the popped counter by their number, they leave the active list, *)
(* the returned list holds exactly them, and the other bubbles stay as     *)
(* they were (a single radius-50 bubble adds exactly 10 and 1).            *)
(***************************************************************************)
C1_PopsAllInRange ==
    [][(IsCollisionCall /\ call'.is_shooting) =>
         LET inRange == {b \in Elems(bubbles) :
                           WithinReach(b, call'.pointer_x, call'.pointer_y)}
         IN /\ score' = score + SumPoints(inRange)
            /\ bubbles_popped' = bubbles_popped + Cardinality(inRange)
            /\ bubbles' = SelectSeq(bubbles, LAMBDA b : b \notin inRange)
            /\ Elems(call'.ret) = inRange
            /\ Len(call'.ret) = Cardinality(inRange)
            /\ (\E b \in inRange : inRange = {b} /\ b.radius = 50)
                  => (score' = score + 10 /\ bubbles_popped' = bubbles_popped + 1)]_vars

\* two bubbles popped by one call, one of them of radius 50
C1_Witness ==
    /\ call.op = "check_collisions"
    /\ call.is_shooting
    /\ Len(call.ret) = 2
    /\ \E b \in Elems(call.ret) : b.radius = 50
    /\ score = call.score_before + SumPoints(Elems(call.ret))

(***************************************************************************)
(* C2.  check_collisions pops a bubble iff is_shooting is true and the     *)
(* pixel distance from the pointer to its centre is at most radius * 1.1   *)
(* (exactly radius * 1.1 is a hit); with is_shooting false it returns an   *)
(* empty list and changes nothing.                                         *)
(***************************************************************************)
C2_HitIffWithinTolerance ==
    [][IsCollisionCall =>
         /\ \A b \in Elems(bubbles) :
               (b \notin Elems(bubbles'))
                  <=> (call'.is_shooting
                         /\ WithinReach(b, call'.pointer_x, call'.pointer_y))
         /\ \A b \in Elems(bubbles) :
               (call'.is_shooting /\ OnReachBoundary(b, call'.pointer_x, call'.pointer_y))
                  => b \in Elems(call'.ret)
         /\ ~call'.is_shooting =>
               (call'.ret = <<>> /\ UNCHANGED gameVars)]_vars

\* a bubble popped by a pointer at distance exactly radius * 1.1
C2_Witness ==
    /\ call.op = "check_collisions"
    /\ call.is_shooting
    /\ \E b \in Elems(call.ret) : OnReachBoundary(b, call.pointer_x, call.pointer_y)

(***************************************************************************)
(* C3.  The active count never exceeds max_bubbles; an update spawns at    *)
(* most one bubble, only when the count is below max_bubbles and at least  *)
(* 1/spawn_rate seconds have passed on the spawn clock, and a spawn sets   *)
(* the spawn clock to the current time.                                    *)
(***************************************************************************)
C3_SpawnRule ==
    /\ [](Len(bubbles) <= max_bubbles)
    /\ [][/\ Len(created') <= Len(created) + 1
          /\ Len(bubbles') <= Len(bubbles) + 1
          /\ Len(created') > Len(created) =>
                /\ IsUpdateCall
                /\ Len(bubbles) < max_bubbles
                /\ 8 * (now' - last_spawn_time) >= 10 * TimeScale
                /\ last_spawn_time' = now'
                /\ Len(bubbles') = Len(bubbles) + 1]_vars

\* an update that found a spawn due but the game full
C3_Witness ==
    /\ call.op = "update"
    /\ Len(bubbles) = max_bubbles
    /\ 8 * (now - last_spawn_time) >= 10 * TimeScale

(***************************************************************************)
(* C4.  update(0) leaves the position of every bubble and the score        *)
(* unchanged.                                                              *)
(***************************************************************************)
C4_UpdateZero ==
    [][(IsUpdateCall /\ call'.delta_time = 0) =>
         /\ score' = score
         /\ \A i \in 1..Len(bubbles) :
               /\ i <= Len(bubbles')
               /\ bubbles'[i].id = bubbles[i].id
               /\ bubbles'[i].x = bubbles[i].x
               /\ bubbles'[i].y = bubbles[i].y]_vars

\* update(0) ran on a game that already held a bubble
C4_Witness ==
    /\ call.op = "update"
    /\ call.delta_time = 0
    /\ Len(bubbles) >= 2

(***************************************************************************)
(* C5.  reset() empties the active list, zeroes score and popped count and *)
(* sets the spawn clock to now; a second reset() at the same clock value   *)
(* changes nothing.                                                        *)
(***************************************************************************)
C5_ResetIdempotent ==
    [][IsResetCall =>
         /\ bubbles' = <<>>
         /\ score' = 0
         /\ bubbles_popped' = 0
         /\ last_spawn_time' = now'
         /\ next_bubble_id' = next_bubble_id
         /\ reset(G', now') = G'
         /\ (call.op = "reset" /\ now' = now) => G' = G]_vars

\* a reset of a game that had scored
C5_Witness ==
    /\ call.op = "reset"
    /\ call.score_before > 0
    /\ next_bubble_id > 0
    /\ bubbles = <<>>

(***************************************************************************)
(* C6 as stated: the score after every step (update, check_collisions,     *)
(* reset) is at least the score before it.                                 *)
(***************************************************************************)
C6_ScoreNeverDecreases == [][score' >= score]_vars

(***************************************************************************)
(* C6 amended.  update and check_collisions never lower the score; the     *)
(* only step that lowers it is reset(), which sets it to 0.                *)
(***************************************************************************)
C6_ScoreDecreasesOnlyByReset ==
    [][/\ (IsUpdateCall \/ IsCollisionCall) => score' >= score
       /\ score' < score => (IsResetCall /\ score' = 0)]_vars

\* a reset that took a positive score back to 0
C6_Witness ==
    /\ call.op = "reset"
    /\ call.score_before > 0
    /\ score = 0

(***************************************************************************)
(* C7.  Every active bubble has min_radius <= radius <= max_radius and     *)
(* point value floor(radius / 5), and no step changes the radius or the    *)
(* point value of a bubble that stays active.                              *)
(***************************************************************************)
C7_RadiusAndPoints ==
    /\ [](\A b \in Elems(bubbles) :
             /\ min_radius <= b.radius
             /\ b.radius <= max_radius
             /\ 5 * b.points <= b.radius
             /\ b.radius < 5 * b.points + 5)
    /\ [][\A b \in Elems(bubbles), c \in Elems(bubbles') :
             b.id = c.id => (c.radius = b.radius /\ c.points = b.points)]_vars

\* a bubble of radius 33, worth 6, that an update has moved
C7_Witness ==
    /\ call.op = "update"
    /\ call.delta_time > 0
    /\ \E b \in Elems(bubbles) : b.radius = 33 /\ b.points = 6 /\ b.id < next_bubble_id - 1

(***************************************************************************)
(* C8.  Bubble ids are unique and strictly increasing in creation order    *)
(* over the whole life of the game, also across reset().                   *)
(***************************************************************************)
C8_IdsIncrease ==
    /\ \A i, j \in 1..Len(created) : i < j => created[i] < created[j]
    /\ \A i, j \in 1..Len(bubbles) : i < j => bubbles[i].id < bubbles[j].id
    /\ \A b \in Elems(bubbles) : InList(b.id, created)

\* a bubble created after a reset that discarded an earlier one
C8_Witness ==
    /\ Len(created) = 2
    /\ Len(bubbles) = 1
    /\ bubbles[1].id = created[2]
    /\ bubbles_popped = 0
    /\ score = 0
    /\ call.op = "update"

(***************************************************************************)
(* C9.  is_closed(hand) is true iff the hand has at least 21 landmarks and *)
(* at least 4 of its 5 fingers are bent: the thumb when its tip is less    *)
(* than 0.15 from the wrist, every other finger when its tip's y exceeds   *)
(* its PIP joint's y.  For a hand of fewer than 21 landmarks the call      *)
(* returns false and does not raise.                                       *)
(***************************************************************************)
ThumbBent(h) ==
    LET dx == Abs(h.landmarks[5].x - h.landmarks[1].x)
        dy == Abs(h.landmarks[5].y - h.landmarks[1].y)
        lim == (15 * NormScale) \div 100
    IN IF dx >= lim \/ dy >= lim THEN FALSE ELSE dx * dx + dy * dy < lim * lim

\* tips at landmarks 8, 12, 16, 20 and PIP joints at 6, 10, 14, 18
BentFingers(h) ==
    {f \in 1..4 : h.landmarks[4 * f + 5].y > h.landmarks[4 * f + 3].y}

BentCount(h) == Cardinality(BentFingers(h)) + (IF ThumbBent(h) THEN 1 ELSE 0)

MovesByFactor(p, q, target, oldTarget) ==
    /\ Abs(100 * (q - p) - 15 * (target - p)) <= 50
    /\ (q - p) * (target - q) >= 0
    /\ target = oldTarget => Abs(100 * Abs(target - q) - 85 * Abs(target - p)) <= 50
    /\ (p = NormScale \div 2 /\ target = NormScale) => q = (575 * NormScale) \div 1000

C10_PointerSmoothing ==
    /\ []((vstate = "loop" /\ ticks = 0) =>
             (pointer_x = NormScale \div 2 /\ pointer_y = NormScale \div 2))
    /\ [][(ticks' = ticks + 1 /\ tick'.frame = "ok") =>
             /\ MovesByFactor(pointer_x, pointer_x', target_pointer_x', target_pointer_x)
             /\ MovesByFactor(pointer_y, pointer_y', target_pointer_y', target_pointer_y)]_vars

(***************************************************************************)
(* C11 as stated.  In every Playing tick that got a frame: when the first  *)
(* hand of the detection result has landmark 8, the pointer target is that *)
(* landmark; when there is no anchor (no result, no hand, or a first hand  *)
(* without landmark 8) the target is (0.5, 0.5) and the pointer moves      *)
(* toward the centre in that tick.                                         *)
(***************************************************************************)
HasAnchor(det) ==
    /\ det.present
    /\ Len(det.hands) >= 1
    /\ Len(det.hands[1].landmarks) >= 9

AnchorOf(det) == det.hands[1].landmarks[9]

\* q is p moved toward c: on the same side, nearer unless p is already at c
TowardCentre(p, q, c) ==
    /\ (p - c) * (q - c) >= 0
    /\ Abs(q - c) <= Abs(p - c)
    /\ p # c => q # p

IsPlayingTick == ticks' = ticks + 1 /\ tick'.frame = "ok"

C11_TargetFollowsAnchor ==
    [][IsPlayingTick =>
         IF HasAnchor(tick'.det)
         THEN /\ target_pointer_x' = AnchorOf(tick'.det).x
              /\ target_pointer_y' = AnchorOf(tick'.det).y
         ELSE /\ target_pointer_x' = NormScale \div 2
              /\ target_pointer_y' = NormScale \div 2
              /\ TowardCentre(pointer_x, pointer_x', NormScale \div 2)
              /\ TowardCentre(pointer_y, pointer_y', NormScale \div 2)]_vars

(***************************************************************************)
(* C13.  A check_menu_selection call fires (returns an item) only if the   *)
(* first hand is closed, its fingertip pixel lies in the box of the item   *)
(* returned and at least 1.0 s has passed since the cooldown clock; the    *)
(* clock is set to the time of the call when it fires and is changed by    *)
(* nothing else.  With frames delivered, an attempt (closed hand on an     *)
(* item) fires iff at least 1.0 s has passed since the last attempt that   *)
(* fired: of attempts at t, t + 0.5 s and t + 1.1 s the first and the      *)
(* third fire and the second does not.                                     *)
(***************************************************************************)
IsCheckSelectionCall == mcall'.op = "check_menu_selection" /\ calls' = calls + 1
IsUpdateSelectionCall == mcall'.op = "update_selection" /\ calls' = calls + 1

\* the pixel of a normalized coordinate (coordinates here are >= 0)
PixelOf(v, dim) == (v * dim) \div NormScale

\* item k (0-based) of the menu: centre (320, 210 + 80 * k), 200 x 50
OnItem(k, h) ==
    /\ Len(h.landmarks) >= 9
    /\ Abs(PixelOf(h.landmarks[9].x, 640) - 320) <= 100
    /\ Abs(PixelOf(h.landmarks[9].y, 480) - (210 + 80 * k)) <= 25

ClosedHand(h) == Len(h.landmarks) >= 21 /\ BentCount(h) >= 4

\* the time of the last attempt before position i of the log that fired
RECURSIVE LastFired(_, _)
LastFired(log, i) ==
    IF i <= 1 THEN 0
    ELSE IF log[i - 1][2] THEN log[i - 1][1] ELSE LastFired(log, i - 1)

C13_SelectionCooldown ==
    /\ [][IsCheckSelectionCall =>
            LET fired == mcall'.ret # NoIndex
                d == mcall'.det
            IN /\ fired =>
                    /\ d.present /\ Len(d.hands) >= 1
                    /\ ClosedHand(d.hands[1])
                    /\ mcall'.ret \in {0, 1}
                    /\ OnItem(mcall'.ret, d.hands[1])
                    /\ now' - last_selection_time >= TimeScale
                    /\ last_selection_time' = now'
               /\ ~fired => last_selection_time' = last_selection_time
               /\ (d.present /\ Len(d.hands) >= 1 /\ ClosedHand(d.hands[1])
                     /\ (OnItem(0, d.hands[1]) \/ OnItem(1, d.hands[1]))
                     /\ mcall'.read_ok)
                    => (fired <=> now' - last_selection_time >= TimeScale)]_vars
    /\ [][IsUpdateSelectionCall => last_selection_time' = last_selection_time]_vars
    /\ [](\A i \in 1..Len(mcall.attempts) :
            LET a == mcall.attempts[i]
            IN a[2] <=> (a[3] /\ a[1] - LastFired(mcall.attempts, i) >= TimeScale))

C13_Witness ==
    /\ Len(mcall.attempts) = 3
    /\ mcall.attempts[2][1] - mcall.attempts[1][1] = TimeScale \div 2
    /\ 10 * (mcall.attempts[3][1] - mcall.attempts[1][1]) = 11 * TimeScale
    /\ mcall.attempts[1][2] /\ ~mcall.attempts[2][2] /\ mcall.attempts[3][2]
    /\ \A i \in 1..3 : mcall.attempts[i][3]

(***************************************************************************)
(* C14 as stated.  After each update_selection call at most one menu item  *)
(* is marked (draw_menu marks item idx when idx = selected_index), and a   *)
(* marked item is the first item in registration order whose box contains  *)
(* the pixel of the current fingertip.                                     *)
(***************************************************************************)
Marked(k, sel) == k = sel

C14_HoverIsFirstMatch ==
    [][IsUpdateSelectionCall =>
         LET d == mcall'.det
         IN /\ Cardinality({k \in {0, 1} : Marked(k, selected_index')}) <= 1
            /\ \A k \in {0, 1} :
                 Marked(k, selected_index') =>
                    /\ d.present /\ Len(d.hands) >= 1
                    /\ OnItem(k, d.hands[1])
                    /\ \A j \in {0, 1} : j < k => ~OnItem(j, d.hands[1])]_vars

(***************************************************************************)
(* C12.  The flow state (MainMenu while AppFlow.run is in show_menu or in  *)
(* the menu loop, Playing while it is in run_game, Exited once it has      *)
(* returned) starts in MainMenu.  It moves from MainMenu to Playing only   *)
(* by a menu tick whose selection fired and whose action returned          *)
(* "start_game", and such a tick does move to Playing; a fired selection   *)
(* whose action returned "exit" moves to Exited; a menu tick that got its  *)
(* frame, fired no selection with one of these two results and saw no      *)
(* quit key stays in MainMenu.  Playing never goes back to MainMenu and    *)
(* Exited is never left.  (The other ways from MainMenu to Exited: quit    *)
(* key, read failure, interrupt, startup failure, are C15 to C17.)         *)
(***************************************************************************)
FlowState ==
    CASE pc \in {"start", "menu"} -> "MainMenu"
      [] pc = "game" -> "Playing"
      [] OTHER -> "Exited"

IsMenuTick == menu_ticks' = menu_ticks + 1
Fired(result) == IsMenuTick /\ mtick'.selected # NoIndex /\ mtick'.result = result

TornDown == camera_cap = "none" /\ ~camera_opened /\ detector_hands = "none"
NothingLeft == unreleased_caps = 0 /\ unreleased_hands = 0

C15_TeardownReleasesAll == FlowState = "Exited" => TornDown /\ NothingLeft

(***************************************************************************)
(* C16.  Once an open() or an initialize() of the session has failed, no   *)
(* tick of the menu loop or of the game loop runs any more, no open() or   *)
(* initialize() is attempted again, and when the run has returned          *)
(* everything acquired before the failure has been released.               *)
(***************************************************************************)
C16_StartupFailureIsFatal ==
    /\ [](startup_failed => retries = 0)
    /\ [](startup_failed /\ FlowState = "Exited" => TornDown /\ NothingLeft)
    /\ [][startup_failed => menu_ticks' = menu_ticks /\ ticks' = ticks]_vars

(***************************************************************************)
(* C17.  A tick in which a camera.read() failed ends its loop without an   *)
(* exception and with the camera and detector released; when the tick is   *)
(* a menu tick the flow state is Exited after it (and so, Exited being     *)
(* terminal, Playing is never entered).                                    *)
(***************************************************************************)
IsGameTick == ticks' = ticks + 1

C17_ReadFailureEndsLoop ==
    [][/\ (IsMenuTick /\ mtick'.failed_reads > 0) =>
              /\ FlowState' = "Exited"
              /\ mtick'.outcome = "read_failed"
              /\ TornDown'
       /\ (IsGameTick /\ tick'.frame # "ok") =>
              /\ vstate' = "stopped"
              /\ tick'.outcome = "read_failed"
              /\ TornDown']_vars

(***************************************************************************)
(* C18.  In every tick of the game loop that got its frame and in which no *)
(* hand is detected (no detection result, or one without hands) the        *)
(* shooting flag is false after the tick, check_collisions is not called   *)
(* and so no bubble is popped, no exception is raised and the loop goes on *)
(* to the next tick; score and popped count are what they were before the  *)
(* tick.  (The keys are read after the hand is handled: the loop goes on   *)
(* unless the quit key was pressed in the tick, and the counts are kept    *)
(* unless the reset key was.)                                              *)
(***************************************************************************)
NoHandIn(det) == ~det.present \/ det.hands = <<>>
IsNoHandTick == IsPlayingTick /\ NoHandIn(tick'.det)

C18_NoHandTick ==
    [][IsNoHandTick =>
         /\ ~is_shooting'
         /\ ~tick'.collided
         /\ tick'.ret = <<>>
         /\ tick'.outcome # "exception"
         /\ tick'.key # "q" => vstate' = "loop"
         /\ tick'.key # "r" => score' = score /\ bubbles_popped' = bubbles_popped]_vars

\* a no-hand tick in a game that has points and bubbles on screen, the
\* pointer on its way back to the centre
C18_Witness ==
    /\ ticks >= 2
    /\ NoHandIn(tick.det)
    /\ tick.frame = "ok"
    /\ tick.key = "none"
    /\ tick.outcome = "continue"
    /\ ~is_shooting
    /\ vstate = "loop"
    /\ score > 0
    /\ bubbles_popped > 0
    /\ Len(bubbles) > 0
    /\ target_pointer_y = Centre
    /\ pointer_y # Centre

(***************************************************************************)
(* C20.  In every tick of the game loop that got its frame, the collision  *)
(* check runs before BubbleGame.update: the bubbles it pops are the ones   *)
(* within reach of the pointer where they were when the tick began, and    *)
(* the game after the tick is update applied to the outcome of the         *)
(* collision check.  The collision check runs exactly when the first hand  *)
(* of this tick's detection result is closed, at the pointer smoothed      *)
(* towards this tick's fingertip.                                          *)
(***************************************************************************)
ThisTicksPointer ==
    PointerStep(tick'.det, pointer_x, pointer_y, target_pointer_x, target_pointer_y)

CollisionFirst ==
    IF ThisTicksPointer.is_shooting
    THEN check_collisions(G, ThisTicksPointer.pointer_x, ThisTicksPointer.pointer_y, TRUE)
    ELSE [game |-> G, ret |-> <<>>]

UpdateLast(d) ==
    update(CollisionFirst.game, Min(now' - last_update_time, TimeScale \div 10), now', d)

C20_StepOrder ==
    [][(IsPlayingTick /\ tick'.outcome = "continue" /\ tick'.key = "none") =>
         /\ tick'.collided = ThisTicksPointer.is_shooting
         /\ pointer_x' = ThisTicksPointer.pointer_x
         /\ pointer_y' = ThisTicksPointer.pointer_y
         /\ tick'.ret = CollisionFirst.ret
         /\ \E d \in SpawnDraws : G' = UpdateLast(d)]_vars

(***************************************************************************)
(* C19.  A tick of the game loop whose detection result holds a hand with  *)
(* fewer than 21 landmarks does not end the session: the shooting flag is  *)
(* false after it whenever the first hand is such a hand, no exception     *)
(* escapes the tick, and the loop goes on to the next tick (unless the     *)
(* quit key was pressed in it).                                            *)
(***************************************************************************)
ShortHand(h) == Len(h.landmarks) < NumLandmarks
HasShortHand(det) == det.present /\ \E i \in 1..Len(det.hands) : ShortHand(det.hands[i])

C19_ShortHandNeverEndsSession ==
    [][(IsPlayingTick /\ HasShortHand(tick'.det)) =>
         /\ ShortHand(tick'.det.hands[1]) => ~is_shooting'
         /\ tick'.outcome # "exception"
         /\ tick'.key # "q" => vstate' = "loop"]_vars

(***************************************************************************)
(* C21.  Every tick of the menu loop and every tick of the game loop calls *)
(* camera.read() exactly once.                                             *)
(***************************************************************************)
C21_OneReadPerTick ==
    [][/\ IsMenuTick => mtick'.reads = 1
       /\ IsGameTick => tick'.reads = 1]_vars

(***************************************************************************)
(* C22.  In an update, a bubble whose integrated position puts its edge    *)
(* (centre +/- radius, in pixels) on or beyond a wall of an axis gets that *)
(* axis's velocity component negated (same magnitude) and its coordinate   *)
(* clamped into [radius/dim, 1 - radius/dim]; on an axis without such a    *)
(* crossing the velocity component is unchanged and the coordinate is the  *)
(* integrated one.  So every active bubble lies fully on-screen on both    *)
(* axes after every update.                                                *)
(***************************************************************************)
Integrated(c, v, dt) == c + VelStep * v * Min(dt, TimeScale \div 10)
Crosses(c, r, px) == c - px * r <= 0 \/ c + px * r >= NormScale
Inside(c, r, px) == px * r <= c /\ c <= NormScale - px * r
FullyOnScreen(b) == Inside(b.x, b.radius, PxX) /\ Inside(b.y, b.radius, PxY)

Reflects(c0, v0, c1, v1, r, px, dt) ==
    LET c == Integrated(c0, v0, dt)
    IN IF Crosses(c, r, px)
       THEN /\ v1 = -v0
            /\ c1 = IF c < px * r THEN px * r
                    ELSE IF c > NormScale - px * r THEN NormScale - px * r ELSE c
       ELSE v1 = v0 /\ c1 = c

C22_WallReflection ==
    /\ [](\A b \in Elems(bubbles) : FullyOnScreen(b))
    /\ [][IsUpdateCall =>
            \A b \in Elems(bubbles), c \in Elems(bubbles') :
               b.id = c.id =>
                  /\ Reflects(b.x, b.velocity_x, c.x, c.velocity_x, b.radius, PxX,
                              call'.delta_time)
                  /\ Reflects(b.y, b.velocity_y, c.y, c.velocity_y, b.radius, PxY,
                              call'.delta_time)]_vars

\* a bubble that entered from the left, met the wall again in a later
\* update and lies clamped at radius/width, moving into the screen
C22_Witness ==
    /\ call.op = "update"
    /\ call.delta_time > 0
    /\ \E b \in Elems(bubbles) :
          /\ b.id < next_bubble_id - 1
          /\ b.x = PxX * b.radius
          /\ b.velocity_x > 0

(***************************************************************************)
(* C23.  An update negates a velocity component of a bubble only when the  *)
(* bubble moves toward the wall it has reached on that axis, and a bubble  *)
(* spawned by the update, which lies at the wall it entered through, has   *)
(* its velocity on that axis pointing into the screen after that update.   *)
(***************************************************************************)
TowardReachedWall(c0, v0, r, px, dt) ==
    LET c == Integrated(c0, v0, dt)
    IN \/ c - px * r <= 0 /\ v0 < 0
       \/ c + px * r >= NormScale /\ v0 > 0

PointsInward(c, v, r, px) ==
    /\ c <= px * r => v > 0
    /\ c >= NormScale - px * r => v < 0

Ids(lst) == {lst[i].id : i \in 1..Len(lst)}

C23_ReversesOnlyTowardWall ==
    [][IsUpdateCall =>
         /\ \A b \in Elems(bubbles), c \in Elems(bubbles') :
               b.id = c.id =>
                  /\ c.velocity_x # b.velocity_x =>
                        TowardReachedWall(b.x, b.velocity_x, b.radius, PxX, call'.delta_time)
                  /\ c.velocity_y # b.velocity_y =>
                        TowardReachedWall(b.y, b.velocity_y, b.radius, PxY, call'.delta_time)
         /\ \A c \in Elems(bubbles') :
               c.id \notin Ids(bubbles) =>
                  /\ PointsInward(c.x, c.velocity_x, c.radius, PxX)
                  /\ PointsInward(c.y, c.velocity_y, c.radius, PxY)]_vars

(***************************************************************************)
(* C24.  An update called with delta_time above 0.1 s leaves the bubbles   *)
(* (positions and velocities) exactly as update(0.1) leaves them from the  *)
(* same state at the same clock value, and no bubble that existed before   *)
(* the update is displaced on an axis by more than 0.1 times its speed on  *)
(* that axis, unless the reflection clamped it.                            *)
(***************************************************************************)
StepLimit == TimeScale \div 10

DisplacedWithinLimit(c0, v0, c1, r, px) ==
    \/ Abs(c1 - c0) <= VelStep * Abs(v0) * StepLimit
    \/ c1 = px * r
    \/ c1 = NormScale - px * r

C24_StepBoundedAtTenth ==
    [][(IsUpdateCall /\ call'.delta_time > StepLimit) =>
         /\ \E d \in SpawnDraws : G' = update(G, StepLimit, now', d)
         /\ \A b \in Elems(bubbles), c \in Elems(bubbles') :
               b.id = c.id =>
                  /\ DisplacedWithinLimit(b.x, b.velocity_x, c.x, b.radius, PxX)
                  /\ DisplacedWithinLimit(b.y, b.velocity_y, c.y, b.radius, PxY)]_vars

\* update(0.15) has moved the bubble that entered from the left at y = 0.15
\* with lateral velocity -0.15 by 0.015 along the wall, twice
C24_Witness ==
    /\ call.op = "update"
    /\ call.delta_time > StepLimit
    /\ \E b \in Elems(bubbles) :
          /\ b.id < next_bubble_id - 1
          /\ b.velocity_y = -15
          /\ b.y = (15 * NormScale) \div 100 - 2 * VelStep * 15 * StepLimit

(***************************************************************************)
(* C25.  A bubble as _spawn_bubble creates it lies on one of the four      *)
(* screen edges: the coordinate across the edge is exactly 0.0 or 1.0 and  *)
(* the coordinate along it is in [0.15, 0.85]; its velocity across the     *)
(* edge points into the screen with magnitude in [0.08, 0.25] and its      *)
(* velocity along the edge is in [-0.15, 0.15].                            *)
(***************************************************************************)
AlongRange(c) == (15 * NormScale) \div 100 <= c /\ c <= (85 * NormScale) \div 100
LateralRange(v) == -15 <= v /\ v <= 15
InboundRange(v) == 8 <= v /\ v <= 25

EntersFrom(across, along, vAcross, vAlong) ==
    /\ across \in {0, NormScale}
    /\ AlongRange(along)
    /\ LateralRange(vAlong)
    /\ across = 0 => InboundRange(vAcross)
    /\ across = NormScale => InboundRange(-vAcross)

C25_SpawnOnEdgeInbound ==
    \A b \in Elems(bubbles) :
       \/ EntersFrom(b.x, b.y, b.velocity_x, b.velocity_y)
       \/ EntersFrom(b.y, b.x, b.velocity_y, b.velocity_x)

\* a bubble created at the right edge, at the end of the along range, with
\* the slowest inbound and the largest lateral velocity
C25_Witness ==
    /\ call.op = "spawn"
    /\ \E b \in Elems(bubbles) :
          /\ b.x = NormScale
          /\ b.y = (85 * NormScale) \div 100
          /\ b.velocity_x = -8
          /\ b.velocity_y = 15

(***************************************************************************)
(* C26.  No update changes the score or the popped count, whatever its     *)
(* delta_time and whatever it does to the bubbles (spawn, move, reflect,   *)
(* remove).                                                                *)
(***************************************************************************)
C26_UpdateKeepsCounts ==
    [][IsUpdateCall => score' = score /\ bubbles_popped' = bubbles_popped]_vars

\* an update that moved a bubble in a game that had already scored
C26_Witness ==
    /\ call.op = "update"
    /\ call.delta_time > 0
    /\ call.score_before > 0
    /\ score = call.score_before
    /\ bubbles_popped > 0
    /\ Len(bubbles) > 0

(***************************************************************************)
(* C27.  No update removes a bubble: a bubble leaves the active list only  *)
(* by being popped by check_collisions or by reset.  The number of bubbles *)
(* spawned since the last reset equals the active count plus the popped    *)
(* count: both are 0 at the start and after a reset, and every other step  *)
(* raises the sum by exactly the number of bubbles it spawned.             *)
(***************************************************************************)
Accounted == Len(bubbles) + bubbles_popped

C27_NoRemovalByUpdate ==
    /\ Accounted = 0 /\ created = <<>>
    /\ [][/\ IsUpdateCall => Ids(bubbles) \subseteq Ids(bubbles')
          /\ \A b \in Elems(bubbles) :
                b.id \notin Ids(bubbles') =>
                   \/ IsResetCall
                   \/ IsCollisionCall /\ b \in Elems(call'.ret)
          /\ IF IsResetCall THEN Accounted' = 0
             ELSE Accounted' - Accounted = Len(created') - Len(created)]_vars

\* two bubbles spawned, the first popped, the second still active after
\* the update that spawned and moved it
C27_Witness ==
    /\ call.op = "update"
    /\ calls = 3
    /\ Len(created) = 2
    /\ bubbles_popped = 1
    /\ Len(bubbles) = 1
    /\ \E b \in Elems(bubbles) : FullyOnScreen(b) /\ b.id = created[2]

(***************************************************************************)
(* C28.  The score is the sum of floor(radius / 5) over the bubbles popped *)
(* since the last reset, each counted once: score and popped count are 0   *)
(* at the start and after a reset, a check_collisions adds floor(radius/5) *)
(* for each bubble it returns and 1 to the popped count, the returned      *)
(* bubbles were active, are pairwise different and are gone afterwards (so *)
(* a hand that stays closed cannot score them again), and no other step    *)
(* changes the counters.  Hence in every state                            *)
(* popped * floor(min_radius/5) <= score <= popped * floor(max_radius/5).  *)
(***************************************************************************)
RECURSIVE SumRadiusPoints(_)
SumRadiusPoints(S) ==
    IF S = {} THEN 0
    ELSE LET b == CHOOSE e \in S : TRUE IN (b.radius \div 5) + SumRadiusPoints(S \ {b})

C28_ScoreIsSumOfPopped ==
    /\ score = 0 /\ bubbles_popped = 0
    /\ [](/\ bubbles_popped * (min_radius \div 5) <= score
          /\ score <= bubbles_popped * (max_radius \div 5))
    /\ [][IF IsResetCall THEN score' = 0 /\ bubbles_popped' = 0
          ELSE IF IsCollisionCall
          THEN /\ score' = score + SumRadiusPoints(Elems(call'.ret))
               /\ bubbles_popped' = bubbles_popped + Len(call'.ret)
               /\ Cardinality(Ids(call'.ret)) = Len(call'.ret)
               /\ Ids(call'.ret) \subseteq Ids(bubbles)
               /\ Ids(call'.ret) \cap Ids(bubbles') = {}
          ELSE score' = score /\ bubbles_popped' = bubbles_popped]_vars

\* a shooting check_collisions right after the one that popped the only
\* bubble: nothing is returned and the score stays
C28_Witness ==
    /\ call.op = "check_collisions"
    /\ call.is_shooting
    /\ call.ret = <<>>
    /\ call.score_before > 0
    /\ score = call.score_before
    /\ bubbles_popped = 1
    /\ bubbles = <<>>
    /\ calls = 3

(***************************************************************************)
(* C29.  Only the first hand of a detection result influences the core     *)
(* state.  The second of the two runs is the one whose detection results   *)
(* are cut down to their first hand: in every tick the run that sees all   *)
(* hands ends up with the pointer, shooting flag, hover and selection the  *)
(* tick gives for the first hand alone, fires a selection only if the      *)
(* first hand alone fires it, and its game loop stops only where the loop  *)
(* of the other run stops (quit key, or an exception the first hand alone  *)
(* raises), so that flow state, bubbles and score agree as well.           *)
(***************************************************************************)
FirstHandOnly(det) ==
    IF det.present /\ Len(det.hands) > 1 THEN Detected(<<det.hands[1]>>) ELSE det

C29_OnlyFirstHandCounts ==
    [][/\ (IsMenuTick /\ mtick'.frame = "ok") =>
             LET det1 == FirstHandOnly(mtick'.det)
             IN \E r1, r2 \in BOOLEAN :
                   LET upd == IF det1.present THEN update_selection(M, det1, r1).menu
                              ELSE M
                       chk == check_menu_selection(upd, det1, now', r2)
                   IN /\ selected_index' = chk.menu.selected_index
                      /\ last_selection_time' = chk.menu.last_selection_time
                      /\ mtick'.selected = chk.ret
       /\ (IsGameTick /\ tick'.frame = "ok") =>
             LET ps1 == PointerStep(FirstHandOnly(tick'.det), pointer_x, pointer_y,
                                    target_pointer_x, target_pointer_y)
             IN /\ pointer_x' = ps1.pointer_x
                /\ pointer_y' = ps1.pointer_y
                /\ is_shooting' = ps1.is_shooting
                /\ tick'.collided = (ps1.is_shooting /\ ~ps1.raised)
                /\ vstate' = "stopped" =>
                      \/ tick'.key = "q"
                      \/ ps1.raised
                      \/ DrawRaises(FirstHandOnly(tick'.det))]_vars

(***************************************************************************)
(* C30.  While the game loop keeps ticking and the clock advances, update  *)
(* runs in every tick: a tick that finds a spawn due and the game below    *)
(* max_bubbles spawns a bubble and sets the spawn clock.  If no bubble is  *)
(* popped and the game is not reset, the active count eventually reaches   *)
(* max_bubbles and stays there.                                            *)
(***************************************************************************)
Undisturbed == tick.key # "r" /\ tick.ret = <<>>
Full == Len(bubbles) = max_bubbles

C30_FillsUpAndStaysFull ==
    /\ [][(IsPlayingTick /\ Len(bubbles) < max_bubbles
              /\ 8 * (now' - last_spawn_time) >= 10 * TimeScale) =>
            /\ Len(created') = Len(created) + 1
            /\ tick'.key # "r" => (last_spawn_time' = now' /\ Len(bubbles') = Len(bubbles) + 1)]_vars
    /\ []Undisturbed => <>[]Full

\* the loop has run for the whole time without a reset or a pop and the
\* game is full
C30_Witness ==
    /\ ticks = LiveTicks
    /\ vstate = "loop"
    /\ Full
    /\ Len(created) = max_bubbles
    /\ bubbles_popped = 0

====
